---- MODULE Spec2Model ----
(***************************************************************************)
(* listenr: microphone capture -> voice-activity segmentation -> segment   *)
(* queue -> transcription worker, gated by an activation flag that is      *)
(* driven by external Start/Pause signals.                                 *)
(*                                                                         *)
(* Modelled from src/audio_recorder.py (AudioRecorder) and src/main.py     *)
(* (signal handlers, transcription_worker, shutdown_handler).              *)
(***************************************************************************)
EXTENDS Integers, Sequences, FiniteSets, TLC

(* ------------------------------ bounds -------------------------------- *)
\* number of capture callbacks (audio blocks) delivered in a run
MaxFrames == 4
\* number of callbacks that deliver a block of the wrong length
MaxBadFrames == 1
\* number of runs of the trigger script
MaxSignals == 3

(* -------------------------- program constants ------------------------- *)
min_speech_duration_ms == 100

VARIABLES
    cfg,                    \* the configuration read by AudioRecorder.__init__
    recorder,               \* the AudioRecorder object (main.py global `recorder`)
    asr_active,             \* main.py global
    keep_running,           \* main.py global
    transcription_queue,    \* main.py global queue.Queue(): the items waiting
    unfinished_tasks,       \* queue.Queue's count of items put and not task_done
    wpc,                    \* position of the transcription worker thread
    audio_segment,          \* the worker's local: the item it dequeued
    shutdown,               \* shutdown_handler: pc, its position ("idle",
                            \* "stopping" once keep_running is cleared,
                            \* "returned"); history: running, whether it
                            \* began with the stream running, and queued, how
                            \* many segments had been enqueued by then, and
                            \* frames, how many blocks had been delivered
                            \* when it stopped the stream
    service,                \* main_service: pc, "running" until it has returned;
                            \* warned, whether it logged that the worker thread
                            \* did not exit
    late_signal,            \* a signal handler call that was already under way
                            \* when shutdown_handler ran
    nframes,                \* callbacks delivered so far
    nbad,                   \* wrong-length blocks delivered so far
    heard,                  \* history: the classifier's answer on the latest
                            \* block ("skipped": it was not asked)
    notified,               \* the last desktop notification main.py sent
    utt,                    \* history: the utterance in progress: its speech-start
                            \* frame, the history held before it, how long it
                            \* was when a Pause was handled (0: none) and
                            \* whether a resume was handled in it
    enqueued,               \* history: every segment put on the queue, in order,
                            \* with the speech-start it grew from and the segment
                            \* that was being transcribed at the time of the put
    discarded,              \* history: every utterance finalized and not put
    dequeued,               \* history: every item the worker got, in order
    got_in,                 \* history: the activation state at the latest get
    skipped,                \* history: items the worker dropped because paused
    transcribed,            \* history: items handed to processor.transcribe
    results,                \* history: how each transcribe call ended
    paused_inflight,        \* history: a Pause was handled while the transcribe
                            \* call of this turn of the worker loop was running
    shadow,                 \* reference run: the same audio, no Pause/Resume
    dispatch                \* the signal files and what delivers them: gi,
                            \* whether GLib was imported; watchdog, whether
                            \* the observer was started;
                            \* files, the signal files that exist; events, the
                            \* FileCreatedEvents the observer has not taken yet;
                            \* idle, the handlers GLib.idle_add has scheduled;
                            \* pc, where the observer thread and the polling
                            \* loop are; history: issued, the signals the
                            \* trigger script wrote, and streams, how many
                            \* capture streams were started and not stopped

vars == <<cfg, recorder, asr_active, keep_running, transcription_queue,
          unfinished_tasks, wpc, audio_segment, shutdown, service, dispatch,
          late_signal,
          nframes, nbad, heard,
          notified, utt, enqueued, discarded, dequeued, got_in, skipped,
          transcribed, results, paused_inflight, shadow>>

(* --------------------------- configuration ---------------------------- *)
\* [Audio] sample_rate, leading_silence_s (as ms), [VAD] frame_ms,
\* silence_duration_ms.  Sample rates are the two the classifier supports.
Configs ==
    { [samplerate |-> 16000, vad_frame_ms |-> 32,
       leading_padding_ms |-> 40, min_silence_duration_ms |-> 700],
      [samplerate |-> 16000, vad_frame_ms |-> 32,
       leading_padding_ms |-> 0, min_silence_duration_ms |-> 700],
      [samplerate |-> 8000, vad_frame_ms |-> 250,
       leading_padding_ms |-> 250, min_silence_duration_ms |-> 0] }

Max(a, b) == IF a >= b THEN a ELSE b
Min(a, b) == IF a <= b THEN a ELSE b
CeilDiv(a, b) == (a + b - 1) \div b

\* self.vad_frame_size = int(self.samplerate * self.vad_frame_ms / 1000)
vad_frame_size == (cfg.samplerate * cfg.vad_frame_ms) \div 1000

\* fault: the capacity is computed without the 500 ms of margin
buffer_frames_count_NoMargin ==
    ((cfg.leading_padding_ms + cfg.min_silence_duration_ms) * cfg.samplerate)
        \div 1000

\* self._buffer_frames_count
buffer_frames_count ==
    ((cfg.leading_padding_ms + cfg.min_silence_duration_ms + 500)
        * cfg.samplerate) \div 1000

\* self._max_buffer_items
max_buffer_items == (buffer_frames_count + vad_frame_size - 1) \div vad_frame_size

\* the lengths a delivered block can have: the configured one, or a short one
BadLen == vad_frame_size \div 2

(* ------------------------------ frames -------------------------------- *)
\* a block of mono samples: its arrival number and its number of samples
Frame(i, n) == [id |-> i, len |-> n]

RECURSIVE Samples(_)
\* len(np.concatenate(frames))
Samples(s) == IF s = <<>> THEN 0 ELSE Head(s).len + Samples(Tail(s))

\* segment_duration_ms >= self.min_speech_duration_ms, with
\* segment_duration_ms = len(segment_data_np) * 1000 / self.samplerate
LongEnough(s) == Samples(s) * 1000 >= min_speech_duration_ms * cfg.samplerate

\* fault: a full history buffer refuses the new block
Push_DropsNewest(buf, f) ==
    IF Len(buf) >= max_buffer_items THEN buf ELSE Append(buf, f)

\* self._buffer.append(mono_data); while len > max: popleft()
Push(buf, f) ==
    LET b == Append(buf, f)
    IN  IF Len(b) > max_buffer_items
        THEN SubSeq(b, Len(b) - max_buffer_items + 1, Len(b))
        ELSE b

\* fault: the slice forgets that the current frame is already in the buffer
LeadingPadding_OffByOne(b) ==
    IF cfg.leading_padding_ms > 0
    THEN LET padding_frames == (cfg.leading_padding_ms * cfg.samplerate) \div 1000
             num_buffer_items_needed ==
                 (padding_frames + vad_frame_size - 1) \div vad_frame_size
             lo == Max(0, Len(b) - num_buffer_items_needed)
         IN  SubSeq(b, lo + 1, Len(b) - 1)
    ELSE <<>>

\* list(self._buffer)[max(0, len(self._buffer) - needed - 1) : -1]
\* b is the history buffer with the current frame already appended
LeadingPadding(b) ==
    IF cfg.leading_padding_ms > 0
    THEN LET padding_frames == (cfg.leading_padding_ms * cfg.samplerate) \div 1000
             num_buffer_items_needed ==
                 (padding_frames + vad_frame_size - 1) \div vad_frame_size
             lo == Max(0, Len(b) - num_buffer_items_needed - 1)
         IN  SubSeq(b, lo + 1, Len(b) - 1)
    ELSE <<>>

(* ------------------------- AudioRecorder ------------------------------ *)
\* what the classifier (vad_iterator) can answer for a block: a speech-start
\* dict, a speech-end dict, None, or a failure (an exception, or a value
\* that is neither: both are only logged)
VadResults == {"start", "end", "none", "error"}

\* AudioRecorder.__init__: the state of a constructed recorder
NewRecorder ==
    [ is_recording_active |-> FALSE,
      stream |-> "none",
      buffer |-> <<>>,
      current_speech_segment_frames |-> <<>>,
      is_speaking |-> FALSE,
      vad_dirty |-> FALSE ]

\* fault: a speech-start inside an utterance begins the utterance again
OnSpeechStart_Restarts(r, b, f) ==
    [r EXCEPT !.is_speaking = TRUE,
              !.current_speech_segment_frames = Append(LeadingPadding(b), f)]

\* fault: an utterance starts without the history before it
OnSpeechStart_NoPadding(r, b, f) ==
    IF ~r.is_speaking
    THEN [r EXCEPT !.is_speaking = TRUE,
                   !.current_speech_segment_frames = <<f>>]
    ELSE [r EXCEPT !.current_speech_segment_frames = Append(@, f)]

\* the speech-start branch of _audio_callback; b is the pushed history
OnSpeechStart(r, b, f) ==
    IF ~r.is_speaking
    THEN [r EXCEPT !.is_speaking = TRUE,
                   !.current_speech_segment_frames =
                        Append(LeadingPadding(b), f)]
    ELSE [r EXCEPT !.current_speech_segment_frames = Append(@, f)]

\* fault: the minimum-duration test is left out
Emits_NoMinimum(seg) == seg # <<>>

\* the decision to put a finalized utterance on the queue
Emits(seg) == seg # <<>> /\ LongEnough(seg)

\* fault: the frames of a finalized utterance stay in the accumulation buffer
OnSpeechEnd_KeepsFrames(r, f) ==
    IF r.is_speaking
    THEN [r EXCEPT !.is_speaking = FALSE,
                   !.current_speech_segment_frames = Append(@, f),
                   !.vad_dirty = FALSE]
    ELSE r

\* the speech-end branch of _audio_callback: the recorder afterwards
OnSpeechEnd(r, f) ==
    IF r.is_speaking
    THEN [r EXCEPT !.is_speaking = FALSE,
                   !.current_speech_segment_frames = <<>>,
                   !.vad_dirty = FALSE]
    ELSE r

\* fault: a speech-end outside an utterance finalizes its own block
Finalized_OutsideUtterance(r, f) ==
    IF r.is_speaking THEN Append(r.current_speech_segment_frames, f) ELSE <<f>>

\* fault: the block on which speech ends is left out of the segment
Finalized_WithoutBoundary(r, f) ==
    IF r.is_speaking THEN r.current_speech_segment_frames ELSE <<>>

\* the frames of the utterance that ends on block f
Finalized(r, f) ==
    IF r.is_speaking THEN Append(r.current_speech_segment_frames, f) ELSE <<>>

\* fault: blocks without an event are left out of the utterance
OnSilence_Drops(r, f) == r

\* the None branch of _audio_callback
OnSilence(r, f) ==
    IF r.is_speaking
    THEN [r EXCEPT !.current_speech_segment_frames = Append(@, f)]
    ELSE r

\* fault: a block of any length is handed to the classifier
AudioCallback_AnyLength(r, f, v) ==
    LET b  == Push(r.buffer, f)
        r2 == [r EXCEPT !.buffer = b, !.vad_dirty = TRUE]
    IN  CASE v = "start" ->
               [rec |-> OnSpeechStart(r2, b, f), put |-> <<>>, drop |-> <<>>]
          [] v = "end" ->
               LET seg == Finalized(r2, f)
               IN  [rec  |-> OnSpeechEnd(r2, f),
                    put  |-> IF Emits(seg) THEN <<seg>> ELSE <<>>,
                    drop |-> IF seg # <<>> /\ ~Emits(seg) THEN <<seg>> ELSE <<>>]
          [] v = "none" ->
               [rec |-> OnSilence(r2, f), put |-> <<>>, drop |-> <<>>]
          [] OTHER ->
               [rec |-> r2, put |-> <<>>, drop |-> <<>>]

\* fault: a failure of the classifier abandons the utterance in progress
AudioCallback_ErrorAborts(r, f, v) ==
    LET b  == Push(r.buffer, f)
        r1 == [r EXCEPT !.buffer = b]
        r2 == [r1 EXCEPT !.vad_dirty = TRUE]
    IN  IF f.len # vad_frame_size
        THEN [rec |-> r1, put |-> <<>>, drop |-> <<>>]
        ELSE CASE v = "start" ->
                    [rec |-> OnSpeechStart(r2, b, f), put |-> <<>>, drop |-> <<>>]
               [] v = "end" ->
                    LET seg == Finalized(r2, f)
                    IN  [rec  |-> OnSpeechEnd(r2, f),
                         put  |-> IF Emits(seg) THEN <<seg>> ELSE <<>>,
                         drop |-> IF seg # <<>> /\ ~Emits(seg) THEN <<seg>> ELSE <<>>]
               [] v = "none" ->
                    [rec |-> OnSilence(r2, f), put |-> <<>>, drop |-> <<>>]
               [] OTHER ->
                    [rec |-> [r2 EXCEPT !.is_speaking = FALSE,
                                        !.current_speech_segment_frames = <<>>],
                     put |-> <<>>, drop |-> <<>>]

\* AudioRecorder._audio_callback on block f with classifier answer v:
\* the recorder afterwards, what was put on the queue, what was discarded
AudioCallback(r, f, v) ==
    LET b  == Push(r.buffer, f)
        r1 == [r EXCEPT !.buffer = b]
        r2 == [r1 EXCEPT !.vad_dirty = TRUE]
    IN  IF f.len # vad_frame_size
        THEN [rec |-> r1, put |-> <<>>, drop |-> <<>>]
        ELSE CASE v = "start" ->
                    [rec |-> OnSpeechStart(r2, b, f), put |-> <<>>, drop |-> <<>>]
               [] v = "end" ->
                    LET seg == Finalized(r2, f)
                    IN  [rec  |-> OnSpeechEnd(r2, f),
                         put  |-> IF Emits(seg) THEN <<seg>> ELSE <<>>,
                         drop |-> IF seg # <<>> /\ ~Emits(seg) THEN <<seg>> ELSE <<>>]
               [] v = "none" ->
                    [rec |-> OnSilence(r2, f), put |-> <<>>, drop |-> <<>>]
               [] OTHER ->
                    [rec |-> r2, put |-> <<>>, drop |-> <<>>]

\* how opening and starting the device can end
StartOutcomes == {"ok", "open_fails", "start_fails"}

\* fault: the recorder is marked active before the device has started
start_recording_MarksEarly(r, o) ==
    IF r.is_recording_active
    THEN [rec |-> r, ok |-> FALSE]
    ELSE LET cleared == [r EXCEPT !.vad_dirty = FALSE,
                                  !.current_speech_segment_frames = <<>>,
                                  !.is_speaking = FALSE,
                                  !.buffer = <<>>,
                                  !.is_recording_active = TRUE]
         IN  CASE o = "ok" ->
                    [rec |-> [cleared EXCEPT !.stream = "running"], ok |-> TRUE]
               [] o = "start_fails" ->
                    [rec |-> [cleared EXCEPT !.stream = "opened"], ok |-> FALSE]
               [] OTHER ->
                    [rec |-> cleared, ok |-> FALSE]

\* fault: a start keeps the history buffer of the session before
start_recording_KeepsHistory(r, o) ==
    IF r.is_recording_active
    THEN [rec |-> r, ok |-> FALSE]
    ELSE LET cleared == [r EXCEPT !.vad_dirty = FALSE,
                                  !.current_speech_segment_frames = <<>>,
                                  !.is_speaking = FALSE]
         IN  CASE o = "ok" ->
                    [rec |-> [cleared EXCEPT !.stream = "running",
                                             !.is_recording_active = TRUE],
                     ok |-> TRUE]
               [] o = "start_fails" ->
                    [rec |-> [cleared EXCEPT !.stream = "opened"], ok |-> FALSE]
               [] OTHER ->
                    [rec |-> cleared, ok |-> FALSE]

\* AudioRecorder.start_recording past its test: the classifier and the
\* segmentation state are reset
ClearSession(r) ==
    [r EXCEPT !.vad_dirty = FALSE,
              !.current_speech_segment_frames = <<>>,
              !.is_speaking = FALSE,
              !.buffer = <<>>]

\* AudioRecorder.start_recording, its try block: the stream is created and
\* started and the recorder marked active, the device behaving as o
OpenStream(r, o) ==
    CASE o = "ok" ->
           [rec |-> [r EXCEPT !.stream = "running",
                              !.is_recording_active = TRUE],
            ok |-> TRUE]
      [] o = "start_fails" ->
           [rec |-> [r EXCEPT !.stream = "opened"], ok |-> FALSE]
      [] OTHER ->
           [rec |-> r, ok |-> FALSE]

\* fault: a start keeps the utterance that was in progress at the stop
start_recording_KeepsUtterance(r, o) ==
    IF r.is_recording_active
    THEN [rec |-> r, ok |-> FALSE]
    ELSE OpenStream([r EXCEPT !.vad_dirty = FALSE, !.buffer = <<>>], o)

\* AudioRecorder.start_recording with the device behaving as o
start_recording(r, o) ==
    IF r.is_recording_active
    THEN [rec |-> r, ok |-> FALSE]
    ELSE OpenStream(ClearSession(r), o)

\* AudioRecorder.stop_recording
stop_recording(r) ==
    IF ~r.is_recording_active \/ r.stream = "none"
    THEN r
    ELSE [r EXCEPT !.stream = "none", !.is_recording_active = FALSE]

(* ------------------------------ service ------------------------------- *)
\* the activation state of section 4.5
State ==
    IF ~recorder.is_recording_active THEN "Stopped"
    ELSE IF asr_active THEN "Active" ELSE "Paused"

\* the signal layer before the first signal, GLib imported or not (g) and
\* the observer started or not (w)
NewDispatch(g, w) ==
    [gi |-> g, watchdog |-> w, files |-> {}, events |-> <<>>, idle |-> <<>>,
     pc |-> [observer |-> "idle", polling |-> "poll_start"],
     issued |-> <<>>, streams |-> 0]

\* the service before the first signal, configured as c, with GLib imported
\* or not (g) and the observer started or not (w)
InitAs(c, g, w) ==
    /\ dispatch = NewDispatch(g, w)
    /\ cfg = c
    /\ recorder = NewRecorder
    /\ asr_active = FALSE
    /\ keep_running = TRUE
    /\ transcription_queue = <<>>
    /\ unfinished_tasks = 0
    /\ wpc = "loop"
    /\ audio_segment = <<>>
    /\ shutdown = [pc |-> "idle", running |-> FALSE, queued |-> 0, frames |-> 0]
    /\ service = [pc |-> "running", warned |-> FALSE]
    /\ late_signal = FALSE
    /\ nframes = 0
    /\ nbad = 0
    /\ heard = "none"
    /\ notified = "none"
    /\ utt = [start |-> 0, avail |-> 0, paused |-> 0, resumed |-> FALSE]
    /\ enqueued = <<>>
    /\ discarded = <<>>
    /\ dequeued = <<>>
    /\ got_in = "Stopped"
    /\ skipped = <<>>
    /\ transcribed = <<>>
    /\ results = <<>>
    /\ paused_inflight = FALSE
    /\ shadow = [rec |-> NewRecorder, enqueued |-> <<>>]

\* the service before the first signal, configured as c
InitWith(c) == InitAs(c, TRUE, TRUE)

Init == \E c \in Configs : InitWith(c)

workerVars == <<wpc, audio_segment, dequeued, got_in, skipped, transcribed,
                results>>
captureVars == <<nframes, nbad, heard, enqueued, discarded>>

\* one invocation of the stream callback on a block of n samples for which
\* the classifier answers v
Callback(n, v) ==
    LET f   == Frame(nframes + 1, n)
        res == AudioCallback(recorder, f, v)
        ref == AudioCallback(shadow.rec, f, v)
        starting == n = vad_frame_size /\ v = "start" /\ ~recorder.is_speaking
    IN  /\ recorder.stream = "running"
        /\ nframes' = nframes + 1
        /\ recorder' = res.rec
        /\ transcription_queue' = transcription_queue \o res.put
        /\ unfinished_tasks' = unfinished_tasks + Len(res.put)
        /\ utt' = IF starting
                  THEN [start |-> f.id, avail |-> Len(recorder.buffer),
                        paused |-> 0, resumed |-> FALSE]
                  ELSE IF ~res.rec.is_speaking
                  THEN [utt EXCEPT !.paused = 0, !.resumed = FALSE]
                  ELSE utt
        /\ enqueued' = enqueued \o
              [i \in 1..Len(res.put) |->
                  [frames |-> res.put[i], start |-> utt.start, avail |-> utt.avail,
                   during |-> IF wpc = "transcribing" THEN audio_segment ELSE <<>>]]
        /\ discarded' = discarded \o res.drop
        /\ heard' = IF n = vad_frame_size THEN v ELSE "skipped"
        /\ shadow' = [rec |-> ref.rec, enqueued |-> shadow.enqueued \o ref.put]
        /\ UNCHANGED <<cfg, asr_active, keep_running, shutdown, service, dispatch, late_signal,
                   notified,
                       paused_inflight>>
        /\ UNCHANGED workerVars

\* fault: the queue holds one item and a put on a full queue is dropped
Deliver_BoundedQueue(n, v) ==
    LET f   == Frame(nframes + 1, n)
        res == AudioCallback(recorder, f, v)
        ref == AudioCallback(shadow.rec, f, v)
        starting == n = vad_frame_size /\ v = "start" /\ ~recorder.is_speaking
    IN  /\ recorder.stream = "running"
        /\ nframes < MaxFrames
        /\ nframes' = nframes + 1
        /\ recorder' = res.rec
        /\ transcription_queue' = IF transcription_queue = <<>>
                                  THEN transcription_queue \o res.put
                                  ELSE transcription_queue
        /\ unfinished_tasks' = IF transcription_queue = <<>>
                               THEN unfinished_tasks + Len(res.put)
                               ELSE unfinished_tasks
        /\ utt' = IF starting
                  THEN [start |-> f.id, avail |-> Len(recorder.buffer),
                        paused |-> 0, resumed |-> FALSE]
                  ELSE IF ~res.rec.is_speaking
                  THEN [utt EXCEPT !.paused = 0, !.resumed = FALSE]
                  ELSE utt
        /\ enqueued' = enqueued \o
              [i \in 1..Len(res.put) |->
                  [frames |-> res.put[i], start |-> utt.start, avail |-> utt.avail,
                   during |-> IF wpc = "transcribing" THEN audio_segment ELSE <<>>]]
        /\ discarded' = discarded \o res.drop
        /\ heard' = IF n = vad_frame_size THEN v ELSE "skipped"
        /\ shadow' = [rec |-> ref.rec, enqueued |-> shadow.enqueued \o ref.put]
        /\ UNCHANGED <<cfg, asr_active, keep_running, shutdown, service, dispatch, late_signal,
                   notified,
                       paused_inflight>>
        /\ UNCHANGED workerVars

\* the stream callback, on at most MaxFrames blocks
Deliver(n, v) ==
    /\ nframes < MaxFrames
    /\ Callback(n, v)

\* a block of the configured length arrives
CaptureFrame ==
    \E v \in VadResults :
        /\ Deliver(vad_frame_size, v)
        /\ UNCHANGED nbad

\* a block of another length arrives (the classifier is not called)
CaptureBadFrame ==
    /\ nbad < MaxBadFrames
    /\ nbad' = nbad + 1
    /\ Deliver(BadLen, "none")

\* what handle_start_resume_signal leaves of recorder r and activation flag a,
\* the device behaving as o if it is opened; note is the notification sent
StartResumeHandled(r, a, o) ==
    IF ~r.is_recording_active
    THEN LET res == start_recording(r, o)
         IN  [recorder |-> res.rec, asr_active |-> res.ok,
              note |-> IF res.ok THEN "ASR Activated" ELSE "ASR Error"]
    ELSE IF ~a
    THEN [recorder |-> r, asr_active |-> TRUE, note |-> "ASR Resumed"]
    ELSE [recorder |-> r, asr_active |-> a, note |-> "none"]

\* fault: a Pause signal flips the activation flag
PauseHandled_Toggles(a) ==
    [asr_active |-> ~a, note |-> IF a THEN "ASR Paused" ELSE "ASR Resumed"]

\* what handle_pause_signal leaves of activation flag a
PauseHandled(a) ==
    IF a THEN [asr_active |-> FALSE, note |-> "ASR Paused"]
    ELSE [asr_active |-> a, note |-> "none"]

\* fault: a resume restarts the segmentation from scratch
handle_start_resume_signal_Resets(o) ==
    IF ~recorder.is_recording_active
    THEN LET res == start_recording(recorder, o)
         IN  /\ recorder' = res.rec
             /\ asr_active' = res.ok
             /\ notified' = IF res.ok THEN "ASR Activated" ELSE "ASR Error"
    ELSE IF ~asr_active
    THEN /\ asr_active' = TRUE
         /\ notified' = "ASR Resumed"
         /\ recorder' = [recorder EXCEPT !.vad_dirty = FALSE,
                                         !.current_speech_segment_frames = <<>>,
                                         !.is_speaking = FALSE,
                                         !.buffer = <<>>]
    ELSE UNCHANGED <<recorder, asr_active, notified>>

\* handle_start_resume_signal, the device behaving as o if it is opened
handle_start_resume_signal(o) ==
    LET h == StartResumeHandled(recorder, asr_active, o)
    IN  /\ recorder' = h.recorder
        /\ asr_active' = h.asr_active
        /\ notified' = IF h.note = "none" THEN notified ELSE h.note

\* fault: pausing also drops the utterance being assembled
handle_pause_signal_Truncates ==
    /\ asr_active' = IF asr_active THEN FALSE ELSE asr_active
    /\ notified' = IF asr_active THEN "ASR Paused" ELSE notified
    /\ recorder' = [recorder EXCEPT !.current_speech_segment_frames = <<>>,
                                    !.is_speaking = FALSE]

\* handle_pause_signal
handle_pause_signal ==
    LET h == PauseHandled(asr_active)
    IN  /\ asr_active' = h.asr_active
        /\ notified' = IF h.note = "none" THEN notified ELSE h.note
        /\ UNCHANGED recorder

\* the polling loop of main_service runs handlers while keep_running; a
\* handler call already under way when shutdown_handler ran (on the observer
\* thread, or interrupted on the main thread) still completes afterwards
SignalDelivered == keep_running \/ late_signal

\* a Start signal is handled
StartSignal ==
    \E o \in StartOutcomes :
        /\ SignalDelivered
        /\ o # "ok" => ~recorder.is_recording_active
        /\ handle_start_resume_signal(o)
        /\ late_signal' = FALSE
        /\ utt' = IF recorder.is_speaking /\ State = "Paused"
                  THEN [utt EXCEPT !.resumed = TRUE] ELSE utt
        /\ shadow' = [shadow EXCEPT !.rec = start_recording(@, o).rec]
        /\ UNCHANGED <<cfg, keep_running, shutdown, service, dispatch, transcription_queue,
                       unfinished_tasks, paused_inflight>>
        /\ UNCHANGED workerVars
        /\ UNCHANGED captureVars

\* a Pause signal is handled
PauseSignal ==
    /\ SignalDelivered
    /\ handle_pause_signal
    /\ late_signal' = FALSE
    /\ utt' = IF recorder.is_speaking /\ State = "Active"
              THEN [utt EXCEPT !.paused =
                              Len(recorder.current_speech_segment_frames)]
              ELSE utt
    /\ paused_inflight' = (paused_inflight \/ (wpc = "transcribing" /\ asr_active))
    /\ UNCHANGED <<cfg, keep_running, shutdown, service, dispatch, transcription_queue,
                   unfinished_tasks, shadow>>
    /\ UNCHANGED workerVars
    /\ UNCHANGED captureVars

\* shutdown_handler (SIGINT/SIGTERM), up to keep_running = False
shutdown_handler ==
    /\ keep_running
    /\ keep_running' = FALSE
    /\ shutdown' = [pc |-> "stopping", running |-> State # "Stopped",
                 queued |-> Len(enqueued), frames |-> 0]
    /\ UNCHANGED <<service, dispatch>>
    /\ late_signal' \in BOOLEAN
    /\ UNCHANGED <<cfg, recorder, asr_active, transcription_queue,
                   unfinished_tasks, notified, utt, paused_inflight, shadow>>
    /\ UNCHANGED workerVars
    /\ UNCHANGED captureVars

\* shutdown_handler, the rest: the observer is stopped, then the stream if
\* the recorder is active; the handler returns
shutdown_stop_recording ==
    /\ shutdown.pc = "stopping"
    /\ shutdown' = [shutdown EXCEPT !.pc = "returned", !.frames = nframes]
    /\ UNCHANGED <<service, dispatch>>
    /\ recorder' = IF recorder.is_recording_active
                   THEN stop_recording(recorder) ELSE recorder
    /\ shadow' = [shadow EXCEPT !.rec = IF @.is_recording_active
                                        THEN stop_recording(@) ELSE @]
    /\ UNCHANGED <<cfg, asr_active, keep_running, late_signal,
                   transcription_queue, unfinished_tasks, notified, utt,
                   paused_inflight>>
    /\ UNCHANGED workerVars
    /\ UNCHANGED captureVars

\* fault: main_service joins the worker thread without a timeout
main_service_cleanup_WaitsForWorker ==
    /\ service.pc = "running"
    /\ ~keep_running
    /\ shutdown.pc = "returned"
    /\ wpc = "finished"
    /\ service' = [pc |-> "returned", warned |-> FALSE]
    /\ UNCHANGED <<cfg, recorder, asr_active, keep_running, shutdown, dispatch,
                   late_signal, transcription_queue, unfinished_tasks, notified,
                   utt, paused_inflight, shadow>>
    /\ UNCHANGED <<wpc, audio_segment, dequeued, got_in, skipped, transcribed,
                   results>>
    /\ UNCHANGED <<nframes, nbad, heard, enqueued, discarded>>

\* main_service after its main loop, which shutdown has ended: the worker
\* thread is joined for at most 2 s, a warning is logged if it is still
\* alive, the PID file is removed and main_service returns
main_service_cleanup ==
    /\ service.pc = "running"
    /\ ~keep_running
    /\ shutdown.pc = "returned"
    /\ service' = [pc |-> "returned", warned |-> wpc # "finished"]
    /\ UNCHANGED <<cfg, recorder, asr_active, keep_running, shutdown, dispatch,
                   late_signal, transcription_queue, unfinished_tasks, notified,
                   utt, paused_inflight, shadow>>
    /\ UNCHANGED workerVars
    /\ UNCHANGED captureVars

(* ------------------------ transcription_worker ------------------------ *)
serviceVars == <<cfg, recorder, asr_active, keep_running, shutdown, service, dispatch, late_signal,
                   notified,
                 utt, shadow>>

\* fault: the worker's loop does not test keep_running
WorkerLoop_IgnoresFlag ==
    /\ wpc = "loop"
    /\ wpc' = "get"
    /\ UNCHANGED <<audio_segment, dequeued, got_in, skipped, transcribed,
                   results, transcription_queue, unfinished_tasks>>
    /\ paused_inflight' = FALSE
    /\ UNCHANGED <<cfg, recorder, asr_active, keep_running, shutdown, service, dispatch,
                   late_signal, notified, utt, shadow>>
    /\ UNCHANGED <<nframes, nbad, heard, enqueued, discarded>>

\* while keep_running:
WorkerLoop ==
    /\ wpc = "loop"
    /\ wpc' = IF keep_running THEN "get" ELSE "finished"
    /\ UNCHANGED <<audio_segment, dequeued, got_in, skipped, transcribed,
                   results, transcription_queue, unfinished_tasks>>
    /\ paused_inflight' = FALSE
    /\ UNCHANGED serviceVars
    /\ UNCHANGED captureVars

\* fault: the worker takes the newest item instead of the oldest
WorkerGet_Newest ==
    /\ wpc = "get"
    /\ transcription_queue # <<>>
    /\ audio_segment' = transcription_queue[Len(transcription_queue)]
    /\ transcription_queue' =
           SubSeq(transcription_queue, 1, Len(transcription_queue) - 1)
    /\ dequeued' = Append(dequeued, transcription_queue[Len(transcription_queue)])
    /\ got_in' = State
    /\ wpc' = "check"
    /\ UNCHANGED <<skipped, transcribed, results, unfinished_tasks>>
    /\ UNCHANGED <<cfg, recorder, asr_active, keep_running, shutdown, service, dispatch, late_signal,
                   notified,
                   utt, shadow, paused_inflight>>
    /\ UNCHANGED <<nframes, nbad, heard, enqueued, discarded>>

\* audio_segment = transcription_queue.get(timeout=0.5) returns an item
WorkerGet ==
    /\ wpc = "get"
    /\ transcription_queue # <<>>
    /\ audio_segment' = Head(transcription_queue)
    /\ transcription_queue' = Tail(transcription_queue)
    /\ dequeued' = Append(dequeued, Head(transcription_queue))
    /\ got_in' = State
    /\ wpc' = "check"
    /\ UNCHANGED <<skipped, transcribed, results, unfinished_tasks>>
    /\ UNCHANGED paused_inflight
    /\ UNCHANGED serviceVars
    /\ UNCHANGED captureVars

\* fault: an idle worker pauses the service
WorkerTimeout_Deactivates ==
    /\ wpc = "get"
    /\ transcription_queue = <<>>
    /\ wpc' = "loop"
    /\ asr_active' = FALSE
    /\ UNCHANGED <<audio_segment, dequeued, got_in, skipped, transcribed,
                   results, transcription_queue, unfinished_tasks>>
    /\ UNCHANGED paused_inflight
    /\ UNCHANGED <<cfg, recorder, keep_running, shutdown, service, dispatch, late_signal,
                   notified, utt, shadow>>
    /\ UNCHANGED captureVars

\* the get times out on an empty queue: queue.Empty, continue
WorkerTimeout ==
    /\ wpc = "get"
    /\ transcription_queue = <<>>
    /\ wpc' = "loop"
    /\ UNCHANGED <<audio_segment, dequeued, got_in, skipped, transcribed,
                   results, transcription_queue, unfinished_tasks>>
    /\ UNCHANGED paused_inflight
    /\ UNCHANGED serviceVars
    /\ UNCHANGED captureVars

\* fault: the worker transcribes whatever the activation flag says
WorkerCheck_IgnoresPause ==
    /\ wpc = "check"
    /\ transcribed' = Append(transcribed, audio_segment)
    /\ wpc' = "transcribing"
    /\ UNCHANGED <<skipped, unfinished_tasks>>
    /\ UNCHANGED <<audio_segment, dequeued, got_in, results, transcription_queue>>
    /\ UNCHANGED <<cfg, recorder, asr_active, keep_running, shutdown, service, dispatch, late_signal,
                   notified,
                   utt, shadow>>
    /\ UNCHANGED paused_inflight
    /\ UNCHANGED <<nframes, nbad, heard, enqueued, discarded>>

\* if not asr_active: task_done, continue; else processor.transcribe is called
WorkerCheck ==
    /\ wpc = "check"
    /\ IF ~asr_active
       THEN /\ skipped' = Append(skipped, audio_segment)
            /\ unfinished_tasks' = unfinished_tasks - 1
            /\ wpc' = "loop"
            /\ UNCHANGED transcribed
       ELSE /\ transcribed' = Append(transcribed, audio_segment)
            /\ wpc' = "transcribing"
            /\ UNCHANGED <<skipped, unfinished_tasks>>
    /\ UNCHANGED <<audio_segment, dequeued, got_in, results, transcription_queue>>
    /\ UNCHANGED paused_inflight
    /\ UNCHANGED serviceVars
    /\ UNCHANGED captureVars

\* how a call of processor.transcribe and the forwarding of its text can
\* end: text, empty text, None, or text whose handle_output call raises
TranscribeOutcomes == {"text", "empty", "failed", "output_raises"}

\* fault: handle_output passes empty text on to the output method
handle_output_DeliversEmpty(res) == res \in {"text", "empty"}

\* handle_output called with the text of outcome res: whether the text
\* reaches a command or the output method (empty text returns at once)
handle_output(res) == res = "text"

\* fault: the text of a transcription that ends while paused is dropped
WorkerFinish_DropsWhenPaused ==
    \E res \in TranscribeOutcomes :
        /\ wpc = "transcribing"
        /\ results' = Append(results,
                              [segment |-> audio_segment,
                               result |-> res,
                               forwarded |-> res # "failed" /\ asr_active,
                               delivered |-> /\ res # "failed"
                                             /\ asr_active
                                             /\ handle_output(res)])
        /\ unfinished_tasks' = IF res = "output_raises" THEN unfinished_tasks
                               ELSE unfinished_tasks - 1
        /\ wpc' = "loop"
        /\ UNCHANGED <<audio_segment, dequeued, got_in, skipped, transcribed,
                       transcription_queue>>
        /\ UNCHANGED paused_inflight
        /\ UNCHANGED <<cfg, recorder, asr_active, keep_running, shutdown, service, dispatch,
                       late_signal,
                       notified, utt, shadow>>
        /\ UNCHANGED <<nframes, nbad, heard, enqueued, discarded>>

\* fault: a segment whose transcription failed is put back for a retry
WorkerFinish_Retry ==
    \E res \in TranscribeOutcomes :
        /\ wpc = "transcribing"
        /\ results' = Append(results,
                              [segment |-> audio_segment,
                               result |-> res,
                               forwarded |-> res # "failed",
                               delivered |-> res # "failed" /\ handle_output(res)])
        /\ transcription_queue' = IF res = "failed"
                                  THEN Append(transcription_queue, audio_segment)
                                  ELSE transcription_queue
        /\ unfinished_tasks' = IF res = "output_raises" THEN unfinished_tasks
                               ELSE unfinished_tasks - 1
        /\ wpc' = "loop"
        /\ UNCHANGED <<audio_segment, dequeued, got_in, skipped, transcribed>>
        /\ UNCHANGED paused_inflight
        /\ UNCHANGED <<cfg, recorder, asr_active, keep_running, shutdown, service, dispatch,
                       late_signal,
                       notified, utt, shadow>>
        /\ UNCHANGED <<nframes, nbad, heard, enqueued, discarded>>

\* fault: a failed transcription ends the worker thread
WorkerFinish_HaltsOnFailure ==
    \E res \in TranscribeOutcomes :
        /\ wpc = "transcribing"
        /\ results' = Append(results,
                              [segment |-> audio_segment,
                               result |-> res,
                               forwarded |-> res # "failed",
                               delivered |-> res # "failed" /\ handle_output(res)])
        /\ unfinished_tasks' = IF res = "output_raises" THEN unfinished_tasks
                               ELSE unfinished_tasks - 1
        /\ wpc' = IF res = "failed" THEN "finished" ELSE "loop"
        /\ UNCHANGED <<audio_segment, dequeued, got_in, skipped, transcribed,
                       transcription_queue>>
        /\ UNCHANGED paused_inflight
        /\ UNCHANGED <<cfg, recorder, asr_active, keep_running, shutdown, service, dispatch,
                       late_signal, notified, utt, shadow>>
        /\ UNCHANGED <<nframes, nbad, heard, enqueued, discarded>>

\* processor.transcribe returns; its text, if not None, goes to handle_output
\* ("forwarded"); task_done follows unless handle_output raised
WorkerFinish ==
    \E res \in TranscribeOutcomes :
        /\ wpc = "transcribing"
        /\ results' = Append(results,
                              [segment |-> audio_segment,
                               result |-> res,
                               forwarded |-> res # "failed",
                               delivered |-> res # "failed" /\ handle_output(res)])
        /\ unfinished_tasks' = IF res = "output_raises" THEN unfinished_tasks
                               ELSE unfinished_tasks - 1
        /\ wpc' = "loop"
        /\ UNCHANGED <<audio_segment, dequeued, got_in, skipped, transcribed,
                       transcription_queue>>
        /\ UNCHANGED paused_inflight
        /\ UNCHANGED serviceVars
        /\ UNCHANGED captureVars

Next ==
    \/ CaptureFrame
    \/ CaptureBadFrame
    \/ StartSignal
    \/ PauseSignal
    \/ shutdown_handler
    \/ shutdown_stop_recording
    \/ WorkerLoop
    \/ WorkerGet
    \/ WorkerTimeout
    \/ WorkerCheck
    \/ WorkerFinish

Spec == Init /\ [][Next]_vars

\* the worker thread is scheduled and its calls (get with its timeout,
\* processor.transcribe, handle_output) return
WorkerFairness ==
    /\ WF_vars(WorkerLoop)
    /\ WF_vars(WorkerGet)
    /\ WF_vars(WorkerTimeout)
    /\ WF_vars(WorkerCheck)
    /\ WF_vars(WorkerFinish)

\* a block of the configured length arrives and the classifier answers
\* without raising
CaptureCleanFrame ==
    \E v \in VadResults \ {"error"} :
        /\ Deliver(vad_frame_size, v)
        /\ UNCHANGED nbad

\* the service fed well-formed audio
LiveNext ==
    \/ CaptureCleanFrame
    \/ StartSignal
    \/ PauseSignal
    \/ shutdown_handler
    \/ shutdown_stop_recording
    \/ WorkerLoop
    \/ WorkerGet
    \/ WorkerTimeout
    \/ WorkerCheck
    \/ WorkerFinish

\* the service fed well-formed audio, its worker thread running fairly
LiveSpec == Init /\ [][LiveNext]_vars /\ WorkerFairness

\* the service fed well-formed audio, with the end of main_service
ExitNext ==
    \/ LiveNext
    \/ main_service_cleanup

\* the default configuration with the padding of the example of section 8:
\* 16 kHz, 32 ms frames, 200 ms of leading padding
ExampleConfig ==
    [samplerate |-> 16000, vad_frame_ms |-> 32,
     leading_padding_ms |-> 200, min_silence_duration_ms |-> 700]

\* the blocks on which the classifier of the example fires
Example == [start |-> 10, end |-> 40]

\* the classifier of the example on the i-th block
ExampleVad(i) ==
    IF i = Example.start THEN "start"
    ELSE IF i = Example.end THEN "end"
    ELSE "none"

\* a correctly sized block arrives and the classifier of the example answers;
\* MaxFrames more blocks follow the one on which speech ends
ExampleFrame ==
    /\ nframes < Example.end + MaxFrames
    /\ Callback(vad_frame_size, ExampleVad(nframes + 1))
    /\ UNCHANGED nbad

\* the example in the running service: signals and the worker go on
ExampleNext ==
    \/ ExampleFrame
    \/ StartSignal
    \/ PauseSignal
    \/ WorkerLoop
    \/ WorkerGet
    \/ WorkerTimeout
    \/ WorkerCheck
    \/ WorkerFinish

\* the service with the configuration and the classifier of the example
ExampleSpec == InitWith(ExampleConfig) /\ [][ExampleNext]_vars

\* the blocks on which the classifier of the second example fires
ShortExample == [start |-> 5, end |-> 7]

\* the classifier of the second example on the i-th block
ShortExampleVad(i) ==
    IF i = ShortExample.start THEN "start"
    ELSE IF i = ShortExample.end THEN "end"
    ELSE "none"

\* a correctly sized block arrives and the classifier of the second example
\* answers; MaxFrames more blocks follow the one on which speech ends
ShortExampleFrame ==
    /\ nframes < ShortExample.end + MaxFrames
    /\ Callback(vad_frame_size, ShortExampleVad(nframes + 1))
    /\ UNCHANGED nbad

\* the second example in the running service
ShortExampleNext ==
    \/ ShortExampleFrame
    \/ StartSignal
    \/ PauseSignal
    \/ WorkerLoop
    \/ WorkerGet
    \/ WorkerTimeout
    \/ WorkerCheck
    \/ WorkerFinish

\* the service with the configuration of the examples and the classifier of
\* the second one
ShortExampleSpec == InitWith(ExampleConfig) /\ [][ShortExampleNext]_vars

\* configurations with the sample rates and block lengths the classifier
\* takes and durations that are not negative, and those of Configs
ValidConfigs ==
    Configs \cup
    { [samplerate |-> sr, vad_frame_ms |-> fm,
       leading_padding_ms |-> p, min_silence_duration_ms |-> q] :
          sr \in {8000, 16000}, fm \in {32, 64, 96},
          p \in {0, 40, 200, 250, 1000}, q \in {0, 700} }

CapacityInit == \E c \in ValidConfigs : InitWith(c)

\* the recorder alone: starts and well-formed blocks
CapacityNext ==
    \/ StartSignal
    \/ CaptureCleanFrame

\* the recorder constructed from any of ValidConfigs
CapacitySpec == CapacityInit /\ [][CapacityNext]_vars

\* the main thread runs on after the main loop; the worker thread may be
\* stuck for ever
ExitSpec == Init /\ [][ExitNext]_vars /\ WF_vars(main_service_cleanup)

(* --------------------------- signal delivery -------------------------- *)
\* the signals of trigger_asr.py: asr_start_signal and asr_stop_signal
Signals == {"start", "stop"}

\* the threads that run the handlers when GLib was not imported: the
\* observer's and the main thread in its polling loop
Threads == {"observer", "polling"}

\* everything the signal layer and the handlers leave alone
dispatchRest == <<cfg, keep_running, transcription_queue, unfinished_tasks,
                  wpc, audio_segment, shutdown, service, late_signal, nframes,
                  nbad, heard, utt, enqueued, discarded, dequeued, got_in,
                  skipped, transcribed, results, paused_inflight, shadow>>

\* where a thread begins the handler of signal k
Handling(k) == IF k = "start" THEN "start_test" ELSE "stop_handle"

\* where a thread is about to safe_remove the file of signal k
Removing(k) == IF k = "start" THEN "start_remove" ELSE "stop_remove"

\* trigger_asr.create_signal(k): the file is opened for writing; a file that
\* is not there is created, which the observer is told; one that is there
\* is rewritten
create_signal(k) ==
    /\ Len(dispatch.issued) < MaxSignals
    /\ dispatch' = [dispatch EXCEPT
                       !.files = @ \cup {k},
                       !.events = IF dispatch.watchdog /\ k \notin dispatch.files
                                  THEN Append(@, k) ELSE @,
                       !.issued = Append(@, k)]
    /\ UNCHANGED <<recorder, asr_active, notified>>
    /\ UNCHANGED dispatchRest

\* the trigger script runs with argument start or stop
Trigger == \E k \in Signals : create_signal(k)

\* SignalHandler.on_created up to the handler: with GLib the handler is
\* scheduled with idle_add, without it the handler is called on this thread
on_created ==
    /\ dispatch.pc.observer = "idle"
    /\ dispatch.events # <<>>
    /\ LET k == Head(dispatch.events)
       IN  dispatch' = [dispatch EXCEPT
                           !.events = Tail(@),
                           !.idle = IF dispatch.gi THEN Append(@, k) ELSE @,
                           !.pc.observer = IF dispatch.gi THEN Removing(k)
                                           ELSE Handling(k)]
    /\ UNCHANGED <<recorder, asr_active, notified>>
    /\ UNCHANGED dispatchRest

\* the GLib main loop runs the handler scheduled first; the device opens
GLibIdle ==
    /\ dispatch.gi
    /\ dispatch.idle # <<>>
    /\ IF Head(dispatch.idle) = "start"
       THEN handle_start_resume_signal("ok")
       ELSE handle_pause_signal
    /\ dispatch' = [dispatch EXCEPT
                       !.idle = Tail(@),
                       !.streams = IF Head(dispatch.idle) = "start"
                                      /\ ~recorder.is_recording_active
                                   THEN @ + 1 ELSE @]
    /\ UNCHANGED dispatchRest

\* the polling loop of main_service tests for the Start file
PollStart ==
    /\ ~dispatch.gi
    /\ dispatch.pc.polling = "poll_start"
    /\ dispatch' = [dispatch EXCEPT
                       !.pc.polling = IF "start" \in dispatch.files
                                      THEN "start_test" ELSE "poll_stop"]
    /\ UNCHANGED <<recorder, asr_active, notified>>
    /\ UNCHANGED dispatchRest

\* the polling loop tests for the Stop file; without one it sleeps and
\* begins again
PollStop ==
    /\ ~dispatch.gi
    /\ dispatch.pc.polling = "poll_stop"
    /\ dispatch' = [dispatch EXCEPT
                       !.pc.polling = IF "stop" \in dispatch.files
                                      THEN "stop_handle" ELSE "poll_start"]
    /\ UNCHANGED <<recorder, asr_active, notified>>
    /\ UNCHANGED dispatchRest

\* handle_start_resume_signal on thread t, its test of is_recording_active;
\* with the recorder active the handler sets asr_active and returns
StartTest(t) ==
    /\ dispatch.pc[t] = "start_test"
    /\ IF ~recorder.is_recording_active
       THEN /\ dispatch' = [dispatch EXCEPT !.pc[t] = "start_call"]
            /\ UNCHANGED <<asr_active, notified>>
       ELSE /\ dispatch' = [dispatch EXCEPT !.pc[t] = "start_remove"]
            /\ asr_active' = TRUE
            /\ notified' = IF asr_active THEN notified ELSE "ASR Resumed"
    /\ UNCHANGED recorder
    /\ UNCHANGED dispatchRest

\* start_recording on thread t, its test: with the recorder active it
\* returns False, which the handler reports as an error
StartCall(t) ==
    /\ dispatch.pc[t] = "start_call"
    /\ IF recorder.is_recording_active
       THEN /\ dispatch' = [dispatch EXCEPT !.pc[t] = "start_remove"]
            /\ asr_active' = FALSE
            /\ notified' = "ASR Error"
       ELSE /\ dispatch' = [dispatch EXCEPT !.pc[t] = "start_clear"]
            /\ UNCHANGED <<asr_active, notified>>
    /\ UNCHANGED recorder
    /\ UNCHANGED dispatchRest

\* start_recording on thread t resets the segmentation state
StartClear(t) ==
    /\ dispatch.pc[t] = "start_clear"
    /\ recorder' = ClearSession(recorder)
    /\ dispatch' = [dispatch EXCEPT !.pc[t] = "start_open"]
    /\ UNCHANGED <<asr_active, notified>>
    /\ UNCHANGED dispatchRest

\* start_recording on thread t creates and starts a stream (the device
\* opens) and returns True; the handler sets asr_active
StartOpen(t) ==
    /\ dispatch.pc[t] = "start_open"
    /\ recorder' = OpenStream(recorder, "ok").rec
    /\ asr_active' = TRUE
    /\ notified' = "ASR Activated"
    /\ dispatch' = [dispatch EXCEPT !.pc[t] = "start_remove",
                                    !.streams = @ + 1]
    /\ UNCHANGED dispatchRest

\* handle_pause_signal on thread t
PauseHandle(t) ==
    /\ dispatch.pc[t] = "stop_handle"
    /\ handle_pause_signal
    /\ dispatch' = [dispatch EXCEPT !.pc[t] = "stop_remove"]
    /\ UNCHANGED dispatchRest

\* safe_remove of the file of signal k on thread t, after the handler: the
\* observer waits for the next event, the polling loop goes on
safe_remove(t, k) ==
    /\ dispatch.pc[t] = Removing(k)
    /\ dispatch' = [dispatch EXCEPT
                       !.files = @ \ {k},
                       !.pc[t] = IF t = "observer" THEN "idle"
                                 ELSE IF k = "start" THEN "poll_stop"
                                 ELSE "poll_start"]
    /\ UNCHANGED <<recorder, asr_active, notified>>
    /\ UNCHANGED dispatchRest

\* a block of silence arrives
CaptureSilence == Deliver(vad_frame_size, "none") /\ UNCHANGED nbad

DispatchInit == \E g, w \in BOOLEAN : InitAs(ExampleConfig, g, w)

DispatchNext ==
    \/ Trigger
    \/ on_created
    \/ GLibIdle
    \/ PollStart
    \/ PollStop
    \/ \E t \in Threads : StartTest(t)
    \/ \E t \in Threads : StartCall(t)
    \/ \E t \in Threads : StartClear(t)
    \/ \E t \in Threads : StartOpen(t)
    \/ \E t \in Threads : PauseHandle(t)
    \/ \E t \in Threads, k \in Signals : safe_remove(t, k)
    \/ CaptureSilence

\* the trigger script, the signal files, the observer, the main loop and the
\* handlers, with GLib imported or not and the observer started or not; the
\* device opens
DispatchSpec == DispatchInit /\ [][DispatchNext]_vars

(* ============================== claims ================================ *)
\* the frames of every segment ever put on the queue, in the order of the puts
EnqueuedFrames == [i \in DOMAIN enqueued |-> enqueued[i].frames]

\* a segment lasts at least ms milliseconds at the configured sample rate
LastsAtLeast(seg, ms) == Samples(seg) * 1000 >= ms * cfg.samplerate

\* C1: every segment put on the transcription queue lasts, leading padding
\* included, at least min_speech_duration_ms (100 ms); an utterance that was
\* finalized shorter than that is discarded and is never on the queue.
C1_MinDuration ==
    /\ \A i \in DOMAIN enqueued : LastsAtLeast(enqueued[i].frames, 100)
    /\ \A i \in DOMAIN transcription_queue :
           LastsAtLeast(transcription_queue[i], 100)
    /\ \A i \in DOMAIN discarded :
           /\ ~LastsAtLeast(discarded[i], 100)
           /\ \A j \in DOMAIN enqueued : enqueued[j].frames # discarded[i]

\* an utterance was discarded as too short and a later one was enqueued
C1_Witness ==
    /\ Len(discarded) > 0
    /\ Len(enqueued) > 0
    /\ Len(transcription_queue) > 0

\* the number of frames of seg that arrived before frame number start
PaddingCount(seg, start) ==
    Cardinality({i \in DOMAIN seg : seg[i].id < start})

\* ceil(leading_padding_ms / frame_duration_ms)
PaddingWanted == CeilDiv(cfg.leading_padding_ms, cfg.vad_frame_ms)

\* every emitted segment, and the utterance in progress, starts with
\* min(available history, wanted) padding frames
C2_PaddingClipped ==
    /\ \A i \in DOMAIN enqueued :
           PaddingCount(enqueued[i].frames, enqueued[i].start)
               = Min(enqueued[i].avail, PaddingWanted)
    /\ recorder.is_speaking =>
           PaddingCount(recorder.current_speech_segment_frames, utt.start)
               = Min(utt.avail, PaddingWanted)

\* a callback that begins an utterance leaves the history buffer as the
\* push of its frame alone leaves it
C2_HistoryKept ==
    ~recorder.is_speaking /\ recorder'.is_speaking =>
        LET b == Append(recorder.buffer, Frame(nframes', vad_frame_size))
        IN  recorder'.buffer =
                SubSeq(b, Max(1, Len(b) - max_buffer_items + 1), Len(b))

\* C2: the leading padding of every emitted segment is
\* min(available_history, ceil(leading_padding_ms / frame_duration_ms))
\* frames, available_history being the frames held in the history buffer
\* before the speech-start frame; the padding is clipped to what is there,
\* and taking it does not change the history buffer.
C2_LeadingPadding == []C2_PaddingClipped /\ [][C2_HistoryKept]_vars

\* one segment was emitted with its padding clipped by an empty history and
\* another with the full padding
C2_Witness ==
    \E i, j \in DOMAIN enqueued :
        /\ enqueued[i].avail < PaddingWanted
        /\ PaddingCount(enqueued[i].frames, enqueued[i].start) = enqueued[i].avail
        /\ enqueued[j].avail > PaddingWanted
        /\ PaddingCount(enqueued[j].frames, enqueued[j].start) = PaddingWanted
        /\ PaddingWanted > 0

\* the arrival number of the frame on which a segment's speech-end fired
EndFrame(seg) == seg[Len(seg)].id

\* s is t with some elements left out, the order kept
RECURSIVE IsSubsequence(_, _)
IsSubsequence(s, t) ==
    IF s = <<>> THEN TRUE
    ELSE IF t = <<>> THEN FALSE
    ELSE IF Head(s) = Head(t) THEN IsSubsequence(Tail(s), Tail(t))
    ELSE IsSubsequence(s, Tail(t))

\* C3: the worker dequeues segments in exactly the order of their speech-end
\* events (FIFO), whatever the interleaving of capture and worker and however
\* long a transcription takes; transcriptions are invoked in that order.
C3_Fifo ==
    /\ \A i, j \in DOMAIN enqueued :
           i < j => EndFrame(enqueued[i].frames) < EndFrame(enqueued[j].frames)
    /\ EnqueuedFrames = dequeued \o transcription_queue
    /\ IsSubsequence(transcribed, dequeued)
    /\ \A i, j \in DOMAIN transcribed :
           i < j => EndFrame(transcribed[i]) < EndFrame(transcribed[j])

\* two segments were transcribed, the second having been enqueued while the
\* first was still being transcribed
C3_Witness ==
    /\ Len(transcribed) = 2
    /\ Len(results) = 2
    /\ enqueued[2].during = enqueued[1].frames
    /\ transcribed = <<enqueued[1].frames, enqueued[2].frames>>

\* no element of s occurs twice
NoDuplicates(s) == \A i, j \in DOMAIN s : s[i] = s[j] => i = j

\* C4: no segment is transcribed twice: each enqueued segment is dequeued at
\* most once and processor.transcribe is invoked at most once for it, also
\* after a failed transcription or an exception in the worker loop.
C4_NoDuplicate ==
    /\ NoDuplicates(EnqueuedFrames)
    /\ NoDuplicates(dequeued)
    /\ NoDuplicates(transcribed)
    /\ \A i \in DOMAIN dequeued : \A j \in DOMAIN transcription_queue :
           dequeued[i] # transcription_queue[j]
    /\ Len(results) <= Len(transcribed)
    /\ Len(transcribed) <= Len(dequeued)

\* the first segment's handle_output call raised inside the worker loop, the
\* second segment's transcription failed, and the worker is back at its get
C4_Witness ==
    /\ Len(results) = 2
    /\ results[1].result = "output_raises"
    /\ results[2].result = "failed"
    /\ results[1].segment # results[2].segment
    /\ wpc = "get"

\* seg holds every frame from number a through number b
Covers(seg, a, b) == \A k \in a..b : \E i \in DOMAIN seg : seg[i].id = k

\* C5: capture and segmentation do not depend on the activation state: the
\* segments enqueued, and the utterance, history and speaking flag in
\* progress, are those of the reference run that receives the same blocks and
\* classifier answers (and the same stream starts and stops) but no Pause or
\* resume; a Pause in mid-utterance truncates nothing.
C5_SegmentationIndependent ==
    /\ shadow.enqueued = EnqueuedFrames
    /\ shadow.rec.current_speech_segment_frames
           = recorder.current_speech_segment_frames
    /\ shadow.rec.is_speaking = recorder.is_speaking
    /\ shadow.rec.buffer = recorder.buffer
    /\ shadow.rec.is_recording_active = recorder.is_recording_active

\* a Pause was handled in mid-utterance while Active; the service is still
\* paused and the utterance has gone on growing since: it holds every frame
\* from its speech-start frame to the latest one
C5_Witness ==
    /\ State = "Paused"
    /\ recorder.is_speaking
    /\ utt.paused > 0
    /\ ~utt.resumed
    /\ Len(recorder.current_speech_segment_frames) >= utt.paused + 2
    /\ Covers(recorder.current_speech_segment_frames, utt.start, nframes)
    /\ shadow.rec.current_speech_segment_frames
           = recorder.current_speech_segment_frames

\* x is an element of sequence s
Occurs(x, s) == \E i \in DOMAIN s : s[i] = x

\* C6 as stated: a segment the worker dequeued while Paused is discarded and
\* never transcribed, so that after a resume only segments dequeued after
\* the resume are transcribed.
C6_Original ==
    got_in = "Paused" => ~Occurs(audio_segment, transcribed)

\* a segment discarded by the worker is not transcribed, not back on the
\* queue and discarded once
C6_DiscardedStay ==
    /\ NoDuplicates(skipped)
    /\ \A i \in DOMAIN skipped :
           /\ ~Occurs(skipped[i], transcribed)
           /\ ~Occurs(skipped[i], transcription_queue)
           /\ Occurs(skipped[i], dequeued)

\* the worker's activation check: with the flag false the item is discarded,
\* marked consumed and not transcribed; a transcription starts only with the
\* flag true
C6_CheckStep ==
    /\ wpc = "check" /\ wpc' # "check" /\ ~asr_active =>
           /\ skipped' = Append(skipped, audio_segment)
           /\ unfinished_tasks' = unfinished_tasks - 1
           /\ transcribed' = transcribed
           /\ results' = results
           /\ wpc' = "loop"
    /\ transcribed' # transcribed =>
           /\ asr_active
           /\ wpc = "check"
           /\ transcribed' = Append(transcribed, audio_segment)

\* C6 (amended): a segment whose activation check, made by the worker right
\* after the get, finds asr_active false is discarded without invoking
\* transcription (marked consumed) and is never transcribed later or
\* replayed; after a resume only segments checked after the resume are
\* transcribed.
C6_PausedDiscard == []C6_DiscardedStay /\ [][C6_CheckStep]_vars

\* the first segment was discarded while Paused; after a resume the second
\* one was transcribed and the first one was not
C6_Witness ==
    /\ Len(enqueued) = 2
    /\ skipped = <<enqueued[1].frames>>
    /\ transcribed = <<enqueued[2].frames>>
    /\ Len(results) = 1
    /\ asr_active
    /\ transcription_queue = <<>>

\* C7 as stated: a transcription under way when a Pause is handled is
\* completed and its result forwarded, and the Pause affects only segments
\* not yet dequeued: a segment the worker dequeued while Active is not
\* discarded.
C7_Original ==
    /\ \A i \in DOMAIN results :
           results[i].result # "failed" => results[i].forwarded
    /\ got_in = "Active" => ~Occurs(audio_segment, skipped)

\* every transcription that returned is recorded for the segment it was
\* started on, and its text, unless the transcription failed, went to the
\* output handler; no segment whose transcription was started is discarded
C7_Completed ==
    /\ Len(results) = Len(transcribed) - (IF wpc = "transcribing" THEN 1 ELSE 0)
    /\ \A i \in DOMAIN results :
           /\ results[i].segment = transcribed[i]
           /\ results[i].result # "failed" => results[i].forwarded
    /\ wpc = "transcribing" => transcribed[Len(transcribed)] = audio_segment
    /\ \A i \in DOMAIN transcribed : ~Occurs(transcribed[i], skipped)

\* a step that clears the activation flag while a transcription is running
\* leaves the worker, its segment and the queue alone; the worker leaves a
\* transcription only by recording its outcome; an item is discarded only
\* by an activation check that finds the flag false
C7_PauseStep ==
    /\ wpc = "transcribing" /\ asr_active /\ ~asr_active' =>
           /\ wpc' = "transcribing"
           /\ audio_segment' = audio_segment
           /\ transcribed' = transcribed
           /\ results' = results
           /\ transcription_queue' = transcription_queue
           /\ unfinished_tasks' = unfinished_tasks
    /\ wpc = "transcribing" /\ wpc' # "transcribing" =>
           /\ Len(results') = Len(results) + 1
           /\ results'[Len(results')].segment = audio_segment
    /\ skipped' # skipped => wpc = "check" /\ ~asr_active

\* C7 (amended): pausing does not cancel an in-flight transcription: a
\* segment whose activation check passed is transcribed to completion and its
\* result is forwarded to the output handler even if a Pause is handled while
\* the transcription is running; the Pause only affects segments whose
\* activation check has not yet been made (a segment already dequeued but not
\* yet checked is discarded).
C7_NoCancel == []C7_Completed /\ [][C7_PauseStep]_vars

\* a Pause was handled while a transcription was running, the service is
\* still paused, and that transcription's text went to the output handler
C7_Witness ==
    /\ paused_inflight
    /\ ~asr_active
    /\ recorder.is_recording_active
    /\ wpc = "loop"
    /\ Len(results) > 0
    /\ results[Len(results)].segment = audio_segment
    /\ results[Len(results)].result = "text"
    /\ results[Len(results)].forwarded

\* a failed start leaves the recorder inactive, the flag false, no stream
\* running and an error notification; a successful one leaves the stream
\* running and the flag true
C8_StartStep ==
    StartSignal /\ State = "Stopped" =>
        \/ /\ recorder'.stream = "running"
           /\ recorder'.is_recording_active
           /\ asr_active'
           /\ notified' = "ASR Activated"
        \/ /\ recorder'.stream # "running"
           /\ ~recorder'.is_recording_active
           /\ ~asr_active'
           /\ notified' = "ASR Error"
           /\ transcription_queue' = transcription_queue

\* a stream starts running only in the handling of a Start signal
C8_NoRetry ==
    recorder.stream # "running" /\ recorder'.stream = "running" => StartSignal

\* the stream runs exactly while the recorder is marked active
C8_StreamState == recorder.is_recording_active <=> recorder.stream = "running"

\* C8: a Start signal handled while Stopped starts the capture stream: on
\* success the state becomes Active (stream running, asr_active true); if
\* opening or starting the device fails the state remains Stopped
\* (is_recording_active false, asr_active false), an error is reported, no
\* stream is left running, and nothing retries the start by itself.
C8_StartWhileStopped ==
    []C8_StreamState /\ [][C8_StartStep]_vars /\ [][C8_NoRetry]_vars

\* after frames had been captured and the stream stopped, a Start was handled
\* whose device start failed: Stopped, inactive, the error notified
C8_Witness ==
    /\ notified = "ASR Error"
    /\ nframes > 0
    /\ recorder.stream = "opened"
    /\ ~recorder.is_recording_active
    /\ ~asr_active

\* what the program holds or has sent out, the histories left aside
programVars == <<cfg, recorder, asr_active, keep_running, transcription_queue,
                 unfinished_tasks, wpc, audio_segment, notified>>

\* the effect of handling a Start signal while the stream runs
C9_StartStep ==
    /\ StartSignal /\ State = "Paused" =>
           /\ asr_active'
           /\ recorder' = recorder
           /\ recorder.stream = "running"
           /\ UNCHANGED <<cfg, keep_running, transcription_queue,
                          unfinished_tasks, wpc, audio_segment>>
    /\ StartSignal /\ State = "Active" => UNCHANGED programVars

\* C9: a Start signal handled while Paused makes the state Active without
\* stopping, restarting or resetting the capture stream or any segmentation
\* state (history buffer, utterance in progress, speaking flag); a Start
\* signal handled while already Active changes nothing at all.
C9_StartWhileRunning == [][C9_StartStep]_vars

\* a resume was handled in the middle of an utterance, which is still being
\* assembled with its history behind it
C9_Witness ==
    /\ utt.resumed
    /\ notified = "ASR Resumed"
    /\ asr_active
    /\ recorder.is_speaking
    /\ Len(recorder.current_speech_segment_frames) >= 2
    /\ Len(recorder.buffer) >= 2
    /\ recorder.stream = "running"

\* the effect of handling a Pause signal
C10_PauseStep ==
    /\ PauseSignal /\ State = "Active" =>
           /\ ~asr_active'
           /\ recorder' = recorder
           /\ recorder.stream = "running"
    /\ PauseSignal /\ State # "Active" => UNCHANGED programVars

\* C10: a Pause signal handled while Active makes the state Paused and leaves
\* the capture stream running and all recorder state unchanged; a Pause
\* signal handled while Stopped or already Paused is a no-op: no state
\* variable changes, the stream is neither started nor stopped.
C10_Original == [][C10_PauseStep]_vars

\* the activation state of recorder r and activation flag a
StateOf(r, a) ==
    IF ~r.is_recording_active THEN "Stopped"
    ELSE IF a THEN "Active" ELSE "Paused"

\* C11: Start and Pause handling is idempotent: from every reachable state,
\* handling the same signal kind twice in succession (the device behaving
\* the same way both times) leaves the same activation state, stream state
\* and recorder state as handling it once.
C11_Idempotent ==
    /\ \A o \in StartOutcomes :
           LET once  == StartResumeHandled(recorder, asr_active, o)
               twice == StartResumeHandled(once.recorder, once.asr_active, o)
           IN  /\ twice.recorder = once.recorder
               /\ twice.asr_active = once.asr_active
               /\ StateOf(twice.recorder, twice.asr_active)
                      = StateOf(once.recorder, once.asr_active)
    /\ LET once  == PauseHandled(asr_active)
           twice == PauseHandled(once.asr_active)
       IN  twice.asr_active = once.asr_active

\* a Pause handled in mid-utterance has made the state Paused (it sent its
\* notification); handling the duplicate of it leaves flag and state as they
\* are, and so does the duplicate of the Start that will resume
C11_Witness ==
    /\ notified = "ASR Paused"
    /\ State = "Paused"
    /\ recorder.is_speaking
    /\ utt.paused > 0
    /\ PauseHandled(asr_active).asr_active = asr_active
    /\ LET once == StartResumeHandled(recorder, asr_active, "ok")
       IN  /\ once.asr_active # asr_active
           /\ StartResumeHandled(once.recorder, once.asr_active, "ok").asr_active
                  = once.asr_active

\* C12: shutdown from Active or Paused stops the capture stream, signals the
\* worker to exit and leaves the system in Stopped: once shutdown_handler has
\* returned, the stream is not running and no further segment is ever
\* enqueued.
C12_Original ==
    [][shutdown.running =>
          /\ shutdown.pc # "returned" /\ shutdown'.pc = "returned" =>
                 /\ ~keep_running'
                 /\ recorder'.stream # "running"
                 /\ StateOf(recorder', asr_active') = "Stopped"
          /\ shutdown.pc = "returned" =>
                 /\ recorder'.stream # "running"
                 /\ enqueued' = enqueued]_vars

\* C13: in the shutdown sequence the capture stream is stopped first, before
\* the worker is signalled to exit (keep_running cleared), so that no
\* utterance can be enqueued after the worker has been told to stop.
C13_Original ==
    /\ [](~keep_running /\ shutdown.pc = "stopping" =>
             recorder.stream # "running")
    /\ [][~keep_running => enqueued' = enqueued]_vars

\* C14: on shutdown the worker drains the queue: every segment that is in the
\* transcription queue when shutdown is requested (one of the first
\* shutdown.queued segments enqueued) has been dequeued by the worker when
\* the worker exits.
C14_Original ==
    wpc = "finished" => Len(dequeued) >= shutdown.queued

\* the number of times x occurs in sequence s
Count(x, s) == Cardinality({i \in DOMAIN s : s[i] = x})

\* a segment whose transcription failed is recorded as failed and not
\* forwarded, is not on the queue again and was handed to transcribe once;
\* the worker thread ends only after shutdown was requested
C15_FailureKept ==
    /\ \A i \in DOMAIN results :
           results[i].result = "failed" =>
               /\ ~results[i].forwarded
               /\ ~Occurs(results[i].segment, transcription_queue)
               /\ Count(results[i].segment, transcribed) = 1
               /\ Count(results[i].segment, dequeued) = 1
    /\ wpc = "finished" => ~keep_running

\* the step on which a transcription returns takes the worker back to its
\* loop test and leaves the queue as it is
C15_FinishStep ==
    wpc = "transcribing" /\ wpc' # "transcribing" =>
        /\ wpc' = "loop"
        /\ transcription_queue' = transcription_queue
        /\ results'[Len(results')].result = "failed" =>
               unfinished_tasks' = unfinished_tasks - 1

\* after a failure the worker, as long as shutdown is not requested, gets
\* every segment enqueued
C15_GoesOn ==
    \A k \in 1..MaxFrames :
        (Len(enqueued) >= k /\ \E i \in DOMAIN results :
                                  results[i].result = "failed")
            ~> (Len(dequeued) >= k \/ ~keep_running)

\* C15: a transcription failure never halts the worker: when
\* processor.transcribe returns its failure value the failure is recorded (the
\* error branch is taken), the segment is not re-enqueued or retried, and the
\* worker goes on to dequeue and process every later segment.
C15_FailureContinues ==
    []C15_FailureKept /\ [][C15_FinishStep]_vars /\ C15_GoesOn

\* the first segment's transcription failed; the worker then transcribed the
\* second one, whose text was delivered
C15_Witness ==
    /\ Len(results) = 2
    /\ results[1].result = "failed"
    /\ results[2].result = "text"
    /\ results[2].forwarded
    /\ results[1].segment # results[2].segment
    /\ keep_running
    /\ wpc = "loop"

\* C16 as stated: handle_output is invoked exactly once for each segment
\* whose transcription succeeded with non-empty text, and never for a segment
\* whose transcription failed or produced empty text.
C16_Original ==
    /\ \A i \in DOMAIN results :
           results[i].forwarded <=> results[i].result \in {"text", "output_raises"}
    /\ \A i, j \in DOMAIN results :
           results[i].segment = results[j].segment => i = j

\* C16 (amended): the worker passes the text to handle_output exactly once
\* for each segment whose transcription returned text, empty or not, and
\* never for a segment whose transcription failed; handle_output returns at
\* once on empty text, so text reaches the output method at most once per
\* segment, only for non-empty text, and never for a failed or empty one.
C16_OutputOnce ==
    /\ \A i \in DOMAIN results :
           /\ results[i].segment = transcribed[i]
           /\ results[i].forwarded <=> results[i].result # "failed"
           /\ results[i].delivered =>
                  results[i].forwarded /\ results[i].result = "text"
           /\ results[i].result = "text" => results[i].delivered
    /\ \A i, j \in DOMAIN results :
           results[i].segment = results[j].segment => i = j
    /\ Len(results) = Len(transcribed) - (IF wpc = "transcribing" THEN 1 ELSE 0)

\* one segment was transcribed to empty text, which was passed to
\* handle_output and went no further; the next one's text was delivered
C16_Witness ==
    /\ Len(results) = 2
    /\ results[1].result = "empty"
    /\ results[1].forwarded
    /\ ~results[1].delivered
    /\ results[2].result = "text"
    /\ results[2].delivered

\* while the stream runs and an utterance is being assembled, the callback
\* on a block that ends it can run although segments are waiting on the
\* queue or the worker is inside a transcription call (MaxFrames bounds the
\* blocks of a run)
C17_PushEnabled ==
    /\ recorder.stream = "running"
    /\ recorder.is_speaking
    /\ nframes < MaxFrames
    /\ transcription_queue # <<>> \/ wpc = "transcribing"
    => ENABLED Deliver(vad_frame_size, "end")

\* C17: the capture thread's push of a finalized segment never blocks:
\* enqueueing is enabled in every state, whatever the queue length and even
\* while the worker is inside a transcription call of arbitrary duration; no
\* segment that met the minimum duration is dropped at push time: what was
\* finalized and not put was too short, and everything put is on the queue
\* until the worker gets it.
C17_PushNeverBlocks ==
    /\ C17_PushEnabled
    /\ \A i \in DOMAIN discarded :
           ~LastsAtLeast(discarded[i], min_speech_duration_ms)
    /\ EnqueuedFrames = dequeued \o transcription_queue
    /\ unfinished_tasks >= Len(transcription_queue)

\* one segment is inside a transcription call and a second one is waiting
\* on the queue, put there by the callback during that call
C17_Witness ==
    /\ Len(enqueued) = 2
    /\ wpc = "transcribing"
    /\ audio_segment = enqueued[1].frames
    /\ enqueued[2].during = audio_segment
    /\ transcription_queue = <<enqueued[2].frames>>
    /\ recorder.stream = "running"

\* the worker's steps around the shutdown flag: a get on an empty queue
\* times out and returns to the loop test; the loop test with the flag
\* cleared ends the thread; a returning transcription goes back to the loop
\* test; the thread, once ended, stays ended and the flag stays cleared
C18_WorkerStep ==
    /\ wpc = "get" /\ transcription_queue = <<>> /\ wpc' # wpc => wpc' = "loop"
    /\ wpc = "loop" /\ ~keep_running /\ wpc' # wpc => wpc' = "finished"
    /\ wpc = "loop" /\ keep_running /\ wpc' # wpc => wpc' = "get"
    /\ wpc = "transcribing" /\ wpc' # wpc => wpc' = "loop"
    /\ wpc = "finished" => wpc' = "finished"
    /\ ~keep_running => ~keep_running'

\* C18: the worker terminates after shutdown: once keep_running is false, a
\* worker idle in get(timeout) gets an empty result on expiry, tests the flag
\* again and exits; a worker inside a transcription exits after that call
\* returns; under fairness the worker thread eventually reaches its finished
\* state.
C18_WorkerTerminates ==
    /\ [][C18_WorkerStep]_vars
    /\ ~keep_running ~> wpc = "finished"

\* shutdown was requested with a segment waiting; the worker has transcribed
\* it and has then left its loop
C18_Witness ==
    /\ wpc = "finished"
    /\ ~keep_running
    /\ shutdown.queued = 1
    /\ Len(dequeued) = 1
    /\ Len(results) = 1
    /\ audio_segment = enqueued[1].frames

\* main_service returns only after shutdown_handler has, whatever the
\* worker is doing then; it has warned exactly if the worker had not exited
C19_CleanupKept ==
    /\ service.pc = "returned" => ~keep_running /\ shutdown.pc = "returned"
    /\ service.pc = "running" /\ shutdown.pc = "returned" =>
           ENABLED main_service_cleanup

\* the step on which main_service returns logs the warning exactly if the
\* worker thread is still alive, and does not touch the worker
C19_CleanupStep ==
    service'.pc # service.pc =>
        /\ service'.pc = "returned"
        /\ service'.warned = (wpc # "finished")
        /\ wpc' = wpc

\* C19: process shutdown completes even if the worker never exits: when the
\* worker is still alive after the bounded join (stuck in a transcription
\* call), main_service logs a warning and still proceeds to cleanup and
\* returns; service termination does not depend on worker termination.
C19_ExitWithoutWorker ==
    /\ []C19_CleanupKept
    /\ [][C19_CleanupStep]_vars
    /\ shutdown.pc = "returned" ~> service.pc = "returned"

\* main_service has returned with the warning logged while the worker is
\* still inside a transcription call
C19_Witness ==
    /\ service.pc = "returned"
    /\ service.warned
    /\ wpc = "transcribing"
    /\ shutdown.pc = "returned"

Ids(seg) == [i \in 1..Len(seg) |-> seg[i].id]

Range(a, b) == [i \in 1..(b - a + 1) |-> a + i - 1]

\* the example as stated: 6 leading padding frames plus 31 frames, 37 frames
C20_Original ==
    nframes >= Example.end =>
        /\ Len(enqueued) = 1
        /\ Len(enqueued[1].frames) = 37
        /\ Ids(enqueued[1].frames) = Range(Example.start - 6, Example.end)

\* C20: with 16 kHz audio, 32 ms blocks of 512 samples, a 100 ms minimum and
\* 200 ms of leading padding, a classifier that fires speech-start on block 10
\* and speech-end on block 40, all blocks correctly sized, yields exactly one
\* enqueued segment, put on the queue exactly once when block 40 arrives: the
\* ceil(200 / 32) = 7 blocks before block 10 and the 31 blocks 10..40,
\* 38 blocks in all
C20_Example ==
    /\ vad_frame_size = 512
    /\ nframes < Example.end => enqueued = <<>> /\ transcription_queue = <<>>
    /\ nframes >= Example.end =>
           /\ Len(enqueued) = 1
           /\ Len(enqueued[1].frames) = 38
           /\ Ids(enqueued[1].frames) = Range(Example.start - 7, Example.end)
           /\ Samples(enqueued[1].frames) = 38 * 512
           /\ Len(transcription_queue) + Len(dequeued) = 1
           /\ discarded = <<>>

\* the example has run to its end and blocks went on arriving: the one
\* segment is there and the worker has taken it
C20_Witness ==
    /\ cfg = ExampleConfig
    /\ nframes > Example.end
    /\ Len(enqueued) = 1
    /\ enqueued[1].frames[1].id = Example.start - 7
    /\ Len(dequeued) = 1

\* the second example as stated: no segment is enqueued
C21_Original == enqueued = <<>>

\* C21: with the same configuration (16 kHz, 32 ms blocks, a 100 ms minimum,
\* 200 ms of leading padding), a classifier that fires speech-start on block 5
\* and speech-end on block 7 results in one segment being enqueued: the
\* padding, clipped to the 4 blocks of history there are, and blocks 5..7 are
\* 7 blocks = 224 ms, which is not under the minimum; nothing is discarded
C21_ShortExample ==
    /\ nframes < ShortExample.end => enqueued = <<>> /\ transcription_queue = <<>>
    /\ nframes >= ShortExample.end =>
           /\ Len(enqueued) = 1
           /\ Ids(enqueued[1].frames) = Range(1, ShortExample.end)
           /\ Samples(enqueued[1].frames) * 1000 = 224 * cfg.samplerate
           /\ LongEnough(enqueued[1].frames)
           /\ Len(transcription_queue) + Len(dequeued) = 1
    /\ discarded = <<>>

\* the second example has run to its end: its segment of 7 blocks was
\* enqueued although blocks 5..7 alone last 96 ms
C21_Witness ==
    /\ cfg = ExampleConfig
    /\ nframes > ShortExample.end
    /\ Len(enqueued) = 1
    /\ Len(enqueued[1].frames) = 7
    /\ enqueued[1].start = ShortExample.start
    /\ ~LongEnough(SubSeq(enqueued[1].frames, 5, 7))

\* a step that changes the flag is a Start or a Pause being handled, and
\* touches neither the blocks captured nor the worker; a step of the callback
\* or of the worker leaves the flag alone, and what the callback does is the
\* function AudioCallback of the recorder, the block and the classifier's
\* answer, in which the flag does not occur
C22_FlagStep ==
    /\ asr_active' # asr_active =>
           /\ StartSignal \/ PauseSignal
           /\ UNCHANGED captureVars
           /\ UNCHANGED workerVars
    /\ nframes' # nframes =>
           /\ asr_active' = asr_active
           /\ \E n \in {vad_frame_size, BadLen}, v \in VadResults :
                  LET res == AudioCallback(recorder, Frame(nframes', n), v)
                  IN  /\ recorder' = res.rec
                      /\ transcription_queue' = transcription_queue \o res.put
    /\ wpc' # wpc => asr_active' = asr_active

\* the callback does not wait for the flag: while the service is paused in
\* mid-utterance the next block can be delivered and end the utterance
C22_CaptureRuns ==
    /\ ~asr_active
    /\ recorder.stream = "running"
    /\ recorder.is_speaking
    /\ nframes < MaxFrames
    => ENABLED Deliver(vad_frame_size, "end")

\* C22: the activation flag is mutated only by the Start and Pause handlers:
\* neither the capture callback nor the transcription worker ever writes
\* asr_active, and the capture callback never reads it or blocks on it.
C22_OnlyController == []C22_CaptureRuns /\ [][C22_FlagStep]_vars

\* the flag was cleared by a Pause while the worker was transcribing, and
\* the callback has put a segment on the queue since the worker's get
C22_Witness ==
    /\ State = "Paused"
    /\ wpc = "transcribing"
    /\ got_in = "Active"
    /\ paused_inflight
    /\ transcription_queue # <<>>
    /\ Len(enqueued) >= 2
    /\ enqueued[Len(enqueued)].during = audio_segment

\* the block that the latest callback received, correctly sized
Block == Frame(nframes', vad_frame_size)

\* a callback on a correctly sized block for which the classifier answered v
Heard(v) == nframes' # nframes /\ heard' = v

\* a speech-end outside an utterance changes nothing but the history buffer
C23_EndStep ==
    Heard("end") /\ ~recorder.is_speaking =>
        /\ ~recorder'.is_speaking
        /\ recorder'.current_speech_segment_frames
               = recorder.current_speech_segment_frames
        /\ recorder'.current_speech_segment_frames = <<>>
        /\ transcription_queue' = transcription_queue
        /\ enqueued' = enqueued
        /\ discarded' = discarded
        /\ recorder'.buffer = Push(recorder.buffer, Block)
        /\ recorder'.stream = "running"

\* the block after such a speech-end is processed as any other: a
\* speech-start on it begins an utterance with its padding and the block
C23_NextStep ==
    Heard("start") /\ heard = "end" /\ ~recorder.is_speaking =>
        /\ recorder'.is_speaking
        /\ recorder'.current_speech_segment_frames
               = Append(LeadingPadding(Push(recorder.buffer, Block)), Block)

\* C23: a speech-end event received while not inside an utterance is
\* ignored: the speaking flag, the utterance accumulation buffer and the
\* transcription queue are unchanged, nothing is enqueued, and later frames
\* are processed normally.
C23_StrayEndIgnored == [][C23_EndStep /\ C23_NextStep]_vars

\* the latest block got a speech-end although no utterance was ever
\* finalized: it came outside an utterance, and nothing was put or discarded
C23_Witness ==
    /\ heard = "end"
    /\ nframes >= 2
    /\ recorder.stream = "running"
    /\ ~recorder.is_speaking
    /\ enqueued = <<>>
    /\ discarded = <<>>

\* a speech-start inside an utterance only appends its block
C24_StartStep ==
    Heard("start") /\ recorder.is_speaking =>
        /\ recorder'.is_speaking
        /\ recorder'.current_speech_segment_frames
               = Append(recorder.current_speech_segment_frames, Block)
        /\ transcription_queue' = transcription_queue
        /\ enqueued' = enqueued
        /\ discarded' = discarded

\* the utterance ends at the next speech-end only, with every block it
\* has accumulated
C24_EndStep ==
    Heard("end") /\ recorder.is_speaking =>
        LET seg == Append(recorder.current_speech_segment_frames, Block)
        IN  /\ ~recorder'.is_speaking
            /\ \/ EnqueuedFrames' = Append(EnqueuedFrames, seg)
               \/ discarded' = Append(discarded, seg)

\* the utterance in progress begins with its padding, then holds the block of
\* its speech-start once, whatever the classifier answered since
C24_UtteranceKept ==
    recorder.is_speaking =>
        LET seg == recorder.current_speech_segment_frames
            pad == PaddingCount(seg, utt.start)
        IN  /\ pad = Min(utt.avail, PaddingWanted)
            /\ seg[pad + 1].id = utt.start
            /\ \A i, j \in DOMAIN seg : i < j => seg[i].id < seg[j].id

\* C24: a speech-start event received while already inside an utterance is
\* ignored: the utterance is not restarted, frames already accumulated are
\* kept, leading padding is not prepended a second time, and the existing
\* utterance continues to accumulate until the next speech-end.
C24_RefireIgnored ==
    []C24_UtteranceKept /\ [][C24_StartStep /\ C24_EndStep]_vars

\* the latest block got a speech-start inside an utterance that began on an
\* earlier block: the utterance still begins with its padding and that
\* earlier block, and the latest block is its last
C24_Witness ==
    /\ heard = "start"
    /\ recorder.is_speaking
    /\ utt.start < nframes
    /\ PaddingWanted > 0
    /\ utt.avail > 0
    /\ LET seg == recorder.current_speech_segment_frames
       IN  /\ seg[1].id < utt.start
           /\ seg[Len(seg)].id = nframes
           /\ Len(seg) >= PaddingCount(seg, utt.start) + 2

\* a callback on a block of another length only appends the block to the
\* history buffer: the classifier's state, the speaking flag, the utterance
\* and the stream are as before, nothing is put or discarded
C25_BadStep ==
    nframes' # nframes /\ heard' = "skipped" =>
        /\ recorder' = [recorder EXCEPT
                           !.buffer = Push(@, Frame(nframes', BadLen))]
        /\ recorder'.buffer[Len(recorder'.buffer)] = Frame(nframes', BadLen)
        /\ transcription_queue' = transcription_queue
        /\ enqueued' = enqueued
        /\ discarded' = discarded

\* the block after it is handed to the classifier and handled as its answer
\* says
C25_NextStep ==
    nframes' # nframes /\ heard = "skipped" /\ heard' # "skipped" =>
        LET res == AudioCallback(recorder, Block, heard')
        IN  /\ recorder' = res.rec
            /\ transcription_queue' = transcription_queue \o res.put
            /\ recorder'.vad_dirty = (heard' # "end" \/ ~recorder.is_speaking)

\* C25: a frame whose length differs from the configured frame size is
\* rejected for that frame only: it is appended to the history buffer, the
\* classifier is not invoked on it, the speaking flag, utterance buffer and
\* queue are unchanged, and the stream continues with the next frame.
C25_WrongSizeSkipped == [][C25_BadStep /\ C25_NextStep]_vars

\* a block of another length has come in mid-utterance and a later block has
\* ended the utterance: the segment enqueued lacks that block, which is in
\* the history buffer
C25_Witness ==
    /\ nbad = 1
    /\ heard = "end"
    /\ Len(enqueued) = 1
    /\ \E k \in (enqueued[1].start + 1)..(nframes - 1) :
           /\ \A i \in DOMAIN enqueued[1].frames : enqueued[1].frames[i].id # k
           /\ Occurs(Frame(k, BadLen), recorder.buffer)

\* a callback in which the classifier fails leaves the speaking flag, the
\* utterance and the queue as they were, the block in the history buffer
\* and the stream running
C26_ErrorStep ==
    Heard("error") =>
        /\ recorder'.is_speaking = recorder.is_speaking
        /\ recorder'.current_speech_segment_frames
               = recorder.current_speech_segment_frames
        /\ recorder'.buffer = Push(recorder.buffer, Block)
        /\ recorder'.stream = "running"
        /\ recorder'.is_recording_active
        /\ transcription_queue' = transcription_queue
        /\ enqueued' = enqueued
        /\ discarded' = discarded

\* the block after the failure is classified and handled as any other
C26_NextStep ==
    nframes' # nframes /\ heard = "error" /\ heard' # "skipped" =>
        LET res == AudioCallback(recorder, Block, heard')
        IN  /\ recorder' = res.rec
            /\ transcription_queue' = transcription_queue \o res.put

\* C26: when the voice-activity classifier raises an error on a frame, the
\* capture callback does not propagate it: the frame is skipped for
\* segmentation, the speaking flag, utterance buffer and queue are left as
\* they were before the frame, and subsequent frames are classified normally.
C26_ClassifierErrorSkipped == [][C26_ErrorStep /\ C26_NextStep]_vars

\* the classifier failed on a block in mid-utterance and a later block has
\* ended the utterance: the segment enqueued lacks the block of the failure
C26_Witness ==
    /\ nbad = 0
    /\ heard = "end"
    /\ Len(enqueued) = 1
    /\ discarded = <<>>
    /\ \E k \in (enqueued[1].start + 1)..(nframes - 1) :
           /\ \A i \in DOMAIN enqueued[1].frames : enqueued[1].frames[i].id # k
           /\ Occurs(Frame(k, vad_frame_size), recorder.buffer)

\* segments a and b have a frame in common
Overlap(a, b) == \E i \in DOMAIN a : Occurs(a[i], b)

\* C27: after every completed utterance (speech-end while inside an
\* utterance), whether the segment was enqueued or discarded as too short,
\* the classifier state is reset, the accumulation buffer is empty and the
\* speaking flag is false, so the next segment contains no accumulated frame
\* of the previous utterance: no two segments put on the queue overlap.
C27_Original ==
    \A i, j \in DOMAIN enqueued :
        i < j => ~Overlap(enqueued[i].frames, enqueued[j].frames)

\* every frame of seg was delivered after the stream was stopped
AfterStop(seg) == \A i \in DOMAIN seg : seg[i].id > shutdown.frames

\* a Start handled while the recorder is inactive leaves, however the
\* device behaves, the classifier reset, both buffers empty and the flag
\* false, and no block is delivered within it
C28_StartStep ==
    StartSignal /\ ~recorder.is_recording_active =>
        /\ ~recorder'.vad_dirty
        /\ recorder'.buffer = <<>>
        /\ recorder'.current_speech_segment_frames = <<>>
        /\ ~recorder'.is_speaking
        /\ nframes' = nframes
        /\ enqueued' = enqueued

\* once the stream has been stopped and started again, the history, the
\* utterance in progress and every segment emitted since hold only blocks
\* delivered after the restart
C28_NoLeak ==
    shutdown.pc = "returned" =>
        /\ recorder.is_recording_active =>
               /\ AfterStop(recorder.buffer)
               /\ AfterStop(recorder.current_speech_segment_frames)
        /\ \A j \in DOMAIN enqueued :
               EndFrame(enqueued[j].frames) > shutdown.frames =>
                   AfterStop(enqueued[j].frames)
        /\ \A d \in DOMAIN discarded :
               EndFrame(discarded[d]) > shutdown.frames => AfterStop(discarded[d])

C29_Bounded ==
    LET b == recorder.buffer
    IN  /\ Len(b) <= max_buffer_items
        /\ b # <<>> =>
               /\ Ids(b) = Range(nframes - Len(b) + 1, nframes)
               /\ Len(b) < max_buffer_items =>
                      \/ b[1].id = 1
                      \/ shutdown.pc = "returned" /\ b[1].id = shutdown.frames + 1

\* every callback appends its block, of whatever length, and then evicts
\* from the front only: the buffer afterwards is the end of the buffer
\* before with the block appended, and the block is its last entry
C29_PushStep ==
    nframes' # nframes =>
        LET b == recorder.buffer
            c == recorder'.buffer
            a == Append(b, c[Len(c)])
        IN  /\ c # <<>>
            /\ c[Len(c)].id = nframes'
            /\ c[Len(c)].len = IF heard' = "skipped" THEN BadLen ELSE vad_frame_size
            /\ Len(c) = Min(Len(b) + 1, max_buffer_items)
            /\ c = SubSeq(a, Len(a) - Len(c) + 1, Len(a))

\* C29: the frame history buffer is bounded with FIFO eviction: after every
\* capture callback its length is <= the configured capacity
\* (_max_buffer_items), it holds exactly the most recent frames in arrival
\* order, and every arriving frame (including wrong-size ones) is appended
\* before any eviction from the front.
C29_HistoryBounded == []C29_Bounded /\ [][C29_PushStep]_vars

\* the buffer is full, its oldest block was evicted, and a block of another
\* length is among those it holds
C29_Witness ==
    /\ Len(recorder.buffer) = max_buffer_items
    /\ recorder.buffer[1].id = 2
    /\ nframes = max_buffer_items + 1
    /\ \E i \in DOMAIN recorder.buffer : recorder.buffer[i].len = BadLen

\* num_buffer_items_needed of the speech-start branch
ItemsNeeded ==
    CeilDiv((cfg.leading_padding_ms * cfg.samplerate) \div 1000, vad_frame_size)

\* C30: the history buffer capacity covers the leading-padding window: for
\* every valid configuration, _max_buffer_items >=
\* ceil(leading_padding_ms / frame_duration_ms) + 1 (padding frames plus the
\* current frame), so once enough frames have arrived the padding is never
\* clipped by eviction: it is short only when fewer blocks than wanted were
\* delivered before the speech-start.
C30_CapacityCoversPadding ==
    /\ max_buffer_items >= PaddingWanted + 1
    /\ max_buffer_items >= ItemsNeeded + 1
    /\ recorder.is_speaking =>
           PaddingCount(recorder.current_speech_segment_frames, utt.start)
               = Min(utt.start - 1, PaddingWanted)
    /\ \A i \in DOMAIN enqueued :
           PaddingCount(enqueued[i].frames, enqueued[i].start)
               = Min(enqueued[i].start - 1, PaddingWanted)

\* the buffer was full and had evicted when an utterance began, and the
\* utterance got all the padding wanted
C30_Witness ==
    /\ recorder.is_speaking
    /\ PaddingWanted > 0
    /\ utt.start > max_buffer_items
    /\ Len(recorder.buffer) = max_buffer_items
    /\ recorder.buffer[1].id > 1
    /\ PaddingCount(recorder.current_speech_segment_frames, utt.start)
           = PaddingWanted

\* C31 as stated: every correctly sized block from the speech-start through
\* the speech-end is in the segment, one on which the classifier failed too
C31_Original ==
    [][Heard("error") /\ recorder.is_speaking =>
          recorder'.current_speech_segment_frames
              = Append(recorder.current_speech_segment_frames, Block)]_vars

\* how a callback changes the utterance: a speech-start outside an utterance
\* begins it with the padding and its block, a block classified inside an
\* utterance is appended, a block of another length or one on which the
\* classifier failed is not, and the speech-end finalizes the utterance with
\* its block as the last one
C31_GrowStep ==
    LET cur == recorder.current_speech_segment_frames
        new == recorder'.current_speech_segment_frames
    IN  /\ Heard("start") /\ ~recorder.is_speaking =>
               new = Append(LeadingPadding(recorder'.buffer), Block)
        /\ (Heard("start") \/ Heard("none")) /\ recorder.is_speaking =>
               new = Append(cur, Block)
        /\ nframes' # nframes /\ heard' \in {"skipped", "error"} => new = cur
        /\ Heard("end") /\ recorder.is_speaking =>
               \/ EnqueuedFrames' = Append(EnqueuedFrames, Append(cur, Block))
               \/ discarded' = Append(discarded, Append(cur, Block))
        /\ ~(Heard("end") /\ recorder.is_speaking) =>
               enqueued' = enqueued /\ discarded' = discarded

\* a segment that was emitted is never changed, on the queue or off it
C31_FrozenStep ==
    /\ \A i \in DOMAIN enqueued : i \in DOMAIN enqueued' /\ enqueued'[i] = enqueued[i]
    /\ \A i \in DOMAIN transcription_queue :
           \/ Occurs(transcription_queue[i], transcription_queue')
           \/ audio_segment' = transcription_queue[i]

\* every emitted segment is in order of arrival: the padding, then the block
\* of the speech-start, then correctly sized blocks up to the block of the
\* speech-end
C31_Shape ==
    \A e \in DOMAIN enqueued :
        LET seg == enqueued[e].frames
            pad == PaddingCount(seg, enqueued[e].start)
        IN  /\ \A i, j \in DOMAIN seg : i < j => seg[i].id < seg[j].id
            /\ seg[pad + 1].id = enqueued[e].start
            /\ \A i \in (pad + 1)..Len(seg) : seg[i].len = vad_frame_size
            /\ \A i \in 1..pad : i < pad => seg[i + 1].id = seg[i].id + 1

\* C31: an emitted segment is exactly the concatenation, in arrival order,
\* of the leading padding frames followed by every correctly sized frame,
\* from the speech-start frame through the speech-end frame inclusive, on
\* which the classifier did not fail; the speech-end (boundary) frame is its
\* last frame and no frame arriving after the speech-end event is ever
\* appended to it.
C31_SegmentContent == []C31_Shape /\ [][C31_GrowStep /\ C31_FrozenStep]_vars

\* a segment of padding, the speech-start block, a block without an event
\* and the speech-end block was emitted, and the worker has taken it as it
\* was emitted
C31_Witness ==
    /\ Len(enqueued) = 1
    /\ nframes = EndFrame(enqueued[1].frames)
    /\ dequeued = <<enqueued[1].frames>>
    /\ LET seg == enqueued[1].frames
           pad == PaddingCount(seg, enqueued[1].start)
       IN  /\ pad >= 1
           /\ Len(seg) = pad + 3
           /\ Ids(seg) = Range(seg[1].id, seg[1].id + Len(seg) - 1)

\* C32: in every reachable state, including after stop_recording and after
\* shutdown, the activation flag being true implies that the capture stream
\* is running (asr_active => recorder.is_recording_active): Active and Paused
\* exist only while the stream runs, and Stopped is never combined with an
\* active flag.
C32_Original ==
    asr_active => recorder.is_recording_active /\ recorder.stream = "running"

\* C33: at most one capture stream is ever open, for every interleaving of
\* Start handling, the same Start file handled by the watchdog thread and by
\* the polling loop when GLib is unavailable included; start_recording opens
\* a stream at most once while the recorder is inactive and never resets the
\* segmentation buffers while a stream is delivering frames.
C33_Original ==
    /\ [](dispatch.streams <= 1)
    /\ [][dispatch.streams > 0 /\ recorder.buffer # <<>> =>
              recorder'.buffer # <<>>]_vars

\* C34: Stopped after shutdown is terminal: no Start handled concurrently
\* with or after the shutdown handler can start the stream again, and the
\* service never exits with a running stream.
C34_Original ==
    /\ [](service.pc = "returned" => recorder.stream # "running")
    /\ [][shutdown.pc = "returned" /\ recorder.stream # "running" =>
              recorder'.stream # "running"]_vars

\* the speaking flag is set exactly when frames are accumulated
C36_Consistent ==
    recorder.is_speaking <=> recorder.current_speech_segment_frames # <<>>

\* a block that arrives outside an utterance and does not begin one is not
\* accumulated, whatever its length and the classifier's answer
C36_OutsideStep ==
    nframes' # nframes /\ ~recorder.is_speaking /\ heard' # "start" =>
        /\ recorder'.current_speech_segment_frames = <<>>
        /\ ~recorder'.is_speaking

SegmentsWith(k) ==
    {i \in DOMAIN enqueued :
        \E j \in DOMAIN enqueued[i].frames : enqueued[i].frames[j].id = k}

\* C37: no captured audio frame appears in more than one enqueued segment:
\* for every frame and classifier sequence, including a speech-start that
\* fires within the leading-padding window after the previous speech-end,
\* the frame sets of any two emitted segments are disjoint.
C37_Original == \A k \in 1..nframes : Cardinality(SegmentsWith(k)) <= 1

\* stopping the stream puts nothing on the queue, finalizes nothing and
\* leaves the utterance in progress where it is
C38_StopStep ==
    shutdown_stop_recording =>
        /\ enqueued' = enqueued
        /\ discarded' = discarded
        /\ transcription_queue' = transcription_queue
        /\ recorder'.current_speech_segment_frames
               = recorder.current_speech_segment_frames
        /\ recorder'.is_speaking = recorder.is_speaking

\* a segment is put on the queue only by the callback of a speech-end inside
\* an utterance, on a running stream, and it is that utterance
C38_PutStep ==
    enqueued' # enqueued \/ Len(transcription_queue') > Len(transcription_queue) =>
        /\ Heard("end")
        /\ recorder.is_speaking
        /\ recorder.stream = "running"
        /\ EnqueuedFrames' =
               Append(EnqueuedFrames,
                      Append(recorder.current_speech_segment_frames, Block))
        /\ transcription_queue' =
               Append(transcription_queue,
                      Append(recorder.current_speech_segment_frames, Block))

\* no segment put on the queue after the stream was stopped holds a block
\* delivered before the stop, and while the recorder is stopped nothing is
\* put
C38_Abandoned ==
    shutdown.pc = "returned" =>
        /\ ~recorder.is_recording_active =>
               \A j \in DOMAIN enqueued :
                   EndFrame(enqueued[j].frames) <= shutdown.frames
        /\ \A j \in DOMAIN enqueued :
               EndFrame(enqueued[j].frames) > shutdown.frames =>
                   \A i \in DOMAIN enqueued[j].frames :
                       enqueued[j].frames[i].id > shutdown.frames

Consumed ==
    /\ dispatch.files = {}
    /\ dispatch.events = <<>>
    /\ dispatch.idle = <<>>
    /\ dispatch.pc.observer = "idle"
    /\ dispatch.pc.polling \in {"poll_start", "poll_stop"}

\* C35: signals written by the trigger script are applied at least once and
\* in the order they were issued: after all signal files have been consumed,
\* the activation state corresponds to the last Start/Pause the trigger
\* issued; no signal is lost because an identical signal file was rewritten
\* before the service removed it, and a Pause followed by a Start within one
\* poll interval does not end in Paused.
C35_Original ==
    Consumed /\ dispatch.issued # <<>> =>
        IF dispatch.issued[Len(dispatch.issued)] = "start"
        THEN State = "Active"
        ELSE State # "Active"

====
